---- MODULE Spec2Model ----
(***************************************************************************)
(* Verification model of the desktop-companion firmware: the Wavefront OBJ  *)
(* loader (obj_loader.c), the procedural mesh builders and the             *)
(* depth-buffered rasterizer (render3d.c) drawing into the SSD1306 frame   *)
(* buffer (ssd1306.c), the buzzer driver (buzzer.c) and the blink and      *)
(* emotion timers of the main loop (desktoy_main.c).                       *)
(*                                                                         *)
(* Several state machines share the module, each with its own              *)
(* specification:                                                          *)
(*   SpecObj, SpecObjLive    one call of obj_load_from_string, one step    *)
(*                           per loop turn (SpecObjLive: with fairness)    *)
(*   SpecObjCalls            calls of obj_load_from_string in sequence     *)
(*   SpecMesh                the builders, one step per array write        *)
(*   SpecProducers           a builder call or a loader call               *)
(*   SpecRender              render3d_clear, render3d_set_light and        *)
(*                           render3d_draw_mesh on an initialised context  *)
(*   SpecView                render3d_clear, render3d_draw_mesh and        *)
(*                           render3d_draw_mesh_wireframe on meshes at the *)
(*                           edges of the culling and near-plane tests     *)
(*   SpecMem                 mesh_create, render3d_init and render3d_free  *)
(*                           over an allocator whose mallocs may fail      *)
(*   SpecDither, SpecPixel   dither_pixel and ssd1306_set_pixel called on  *)
(*                           their own                                     *)
(*   SpecLight               render3d_set_light with lights at the edges   *)
(*                           of the brightness range, then draw_mesh       *)
(*   SpecLine                render3d_draw_line called on its own          *)
(*   SpecCamera              a context fresh from render3d_init, then      *)
(*                           set_camera, set_light, clear, draw_mesh and   *)
(*                           present                                       *)
(*   SpecClip                render3d_draw_mesh on triangles that reach    *)
(*                           over the edges of the display                 *)
(*   SpecTile                dither_pixel called over 4x4 tiles            *)
(*   SpecBuzzer              buzzer_play_sfx, buzzer_play_midi and         *)
(*                           buzzer_update, the update under fairness      *)
(*   SpecFace                update_face on every turn of the main loop    *)
(***************************************************************************)
EXTENDS Integers, Sequences, FiniteSets, TLC

VARIABLES
    \* ---- obj_loader.c ----
    obj_data,       \* the text handed to obj_load_from_string (or NULL)
    default_color,  \* its default_color argument
    records,        \* the records obj_data was written from (ground truth)
    pc,             \* position inside obj_load_from_string
    cnt_p,          \* count_elements: p
    line,           \* count_elements: line
    face_verts,     \* count_elements: face_verts
    vert_count,     \* obj_load_from_string: vert_count (count_elements *verts)
    face_count,     \* obj_load_from_string: face_count (count_elements *faces)
    p,              \* obj_load_from_string: p
    vi,             \* obj_load_from_string: vi
    fi,             \* obj_load_from_string: fi
    nv,             \* obj_load_from_string: nv
    face_indices,   \* obj_load_from_string: face_indices[0..nv-1]
    mesh,           \* the mesh under construction (NULL before mesh_create)
    ret,            \* the value returned by the last finished call
    error_msg,      \* static char error_msg[128]
    heap,           \* number of live meshes allocated by the loader
    history,        \* whether each earlier call returned a mesh, oldest first
    \* ---- render3d.c: the mesh builders ----
    bpc,            \* position inside the running builder
    builder,        \* which builder was called
    seg_arg,        \* mesh_create_sphere: the segments argument as passed
    segments,       \* mesh_create_sphere: segments (clamped on entry)
    rings,          \* mesh_create_sphere: rings
    slices,         \* mesh_create_sphere: slices
    bvi,            \* the builder's vi
    bfi,            \* the builder's fi
    ring,           \* the builder's outer loop counter (r)
    slice,          \* the builder's inner loop counter (s)
    bi,             \* the builder's loop counter i
    bmesh,          \* the builder's mesh
    bret,           \* the value the builder returned
    \* ---- render3d.c: the renderer, ssd1306.c: the frame buffer ----
    zbuffer,        \* ctx->zbuffer[0 .. width*height-1]
    light,          \* ctx->light
    frame_buffer,   \* static uint8_t frame_buffer[1024]
    frags,          \* per depth cell, the fragments rasterized since the clear
    draws,          \* render3d_draw_mesh calls since the last clear
    last_op,        \* the renderer call that returned last
    before,         \* what the last render3d_clear found: [depth, lit]
    camera,         \* ctx->camera: [position, target, up, fov, near, far],
                    \* lengths in tenths, fov in degrees
    view_matrix,    \* ctx->view_matrix
    proj_matrix,    \* ctx->proj_matrix
    drawn,          \* the last draw call: [mesh, made, writes, outside, shades]
    \* ---- the allocator under mesh_create and render3d_init ----
    memory,         \* every block malloc has returned so far, oldest first
    ctx,            \* render_ctx_t: the buffer pointers and the size
    build,          \* DISPLAY_COLOR_MODE of the build
    mem_call,       \* the last mesh_create/render3d_init/render3d_free call
    \* ---- calls of dither_pixel and ssd1306_set_pixel ----
    dither_calls,   \* the last two dither_pixel calls and what they returned
    pixel_call,     \* the last ssd1306_set_pixel call and the frame before it
    line_call,      \* the last render3d_draw_line call: its endpoints, the frame
                    \* before it, the positions it visited, whether it returned
    tile_calls,     \* the last two 4x4 tiles dither_pixel was called over
    buzzer,         \* buzzer.c: the driver's state and the duty the LEDC channel is set to
    played,         \* the number of play requests made so far
    face            \* desktoy_main.c: the emotion, the eye targets and the blink timer

objvars == <<obj_data, default_color, records, pc, cnt_p, line, face_verts,
             vert_count, face_count, p, vi, fi, nv, face_indices, mesh, ret,
             error_msg, heap, history>>

bldvars == <<bpc, builder, seg_arg, segments, rings, slices, bvi, bfi, ring, slice,
             bi, bmesh, bret>>

camvars == <<camera, view_matrix, proj_matrix>>

rndvars == <<zbuffer, light, frame_buffer, frags, draws, last_op, before, camvars,
             drawn>>

memvars == <<memory, ctx, build, mem_call>>

pixvars == <<dither_calls, pixel_call, line_call, tile_calls>>

appvars == <<buzzer, played, face>>

vars == <<objvars, bldvars, rndvars, memvars, pixvars, appvars>>

(***************************************************************************)
(* Program constants                                                       *)
(***************************************************************************)
MAX_VERTICES == 128
MAX_FACES == 256
MAX_NGON == 16
SSD1306_WIDTH == 128
SSD1306_HEIGHT == 64

\* a null mesh_t*, and a null const char*
NULL == [null |-> TRUE]
NULL_TEXT == <<"NULL">>
NUL == "NUL"          \* the terminating '\0' of a C string

(***************************************************************************)
(* Bounds of the model                                                     *)
(***************************************************************************)
MaxRecs == 4          \* records per generated OBJ text

(***************************************************************************)
(* C strings are sequences of one-character strings; a pointer is a        *)
(* 1-based position, and position Len+1 holds the terminating NUL.         *)
(***************************************************************************)
NL == "\n"
At(d, q) == IF q \in DOMAIN d THEN d[q] ELSE NUL

Digits == <<"0", "1", "2", "3", "4", "5", "6", "7", "8", "9">>
DigitSet == {Digits[k] : k \in 1..10}
IsDigit(c) == c \in DigitSet
DigitVal(c) == (CHOOSE k \in 1..10 : Digits[k] = c) - 1

\* <ctype.h> isspace in the "C" locale
isspace(c) == c \in {" ", "\t", NL, "\r", "\f"}

\* isspace(c) && c != '\n'
IsBlank(c) == isspace(c) /\ c # NL

\* the loop conditions of the forward scans, by name
Go(c, cond) ==
    CASE cond = "isspace" -> isspace(c)
      [] cond = "isdigit" -> IsDigit(c)
      [] cond = "blank" -> IsBlank(c)
      [] cond = "not eol" -> c # NL

\* a forward scan, while (*q && Go(*q)) q++: the first position from q on
\* whose character is the terminating NUL or is rejected by the condition
Scan(d, q, cond) ==
    CHOOSE e \in q..(Len(d) + 1) :
        /\ (At(d, e) = NUL \/ ~Go(At(d, e), cond))
        /\ \A k \in q..(e - 1) : At(d, k) # NUL /\ Go(At(d, k), cond)

\* the leading-whitespace skip of strtol/strtof: every isspace, '\n' too
SkipSpace(d, q) == Scan(d, q, "isspace")

DigitsEnd(d, q) == Scan(d, q, "isdigit")

RECURSIVE DigitsVal(_, _, _, _)
DigitsVal(d, q, e, acc) ==
    IF q >= e THEN acc ELSE DigitsVal(d, q + 1, e, acc * 10 + DigitVal(d[q]))

\* the number whose sign (if any) is at s and whose digits are b..e-1,
\* read from nptr = q
Converted(d, q, s, b, e) ==
    IF e = b THEN [val |-> 0, end |-> q]
    ELSE [val |-> IF At(d, s) = "-" THEN 0 - DigitsVal(d, b, e, 0)
                  ELSE DigitsVal(d, b, e, 0),
          end |-> e]

\* strtol(nptr, &end, 10): [val, end]; with no digits val = 0 and end = nptr
strtol(d, q) ==
    CHOOSE r \in {Converted(d, q, sb[1], sb[2], DigitsEnd(d, sb[2])) :
                    sb \in {<<s, IF At(d, s) \in {"-", "+"} THEN s + 1 ELSE s>> :
                              s \in {SkipSpace(d, q)}}} : TRUE

\* strtof(nptr, &end) on texts whose numbers are written [sign]digits
strtof(d, q) == strtol(d, q)

(***************************************************************************)
(* obj_loader.c: the static helpers                                        *)
(***************************************************************************)
skip_ws(d, q) == Scan(d, q, "blank")

parse_float(d, q) == strtof(d, skip_ws(d, q))

parse_int(d, q) == strtol(d, skip_ws(d, q))

\* lines 48-59 of parse_face_index: the texture and normal references
\* that follow the vertex index, from position q on
SkipRefs(d, q) ==
    IF At(d, q) = "/"
    THEN CHOOSE e \in {IF At(d, b) = "/" THEN strtol(d, b + 1).end ELSE b :
                         b \in {IF At(d, q + 1) # "/" THEN strtol(d, q + 1).end
                                ELSE q + 1}} : TRUE
    ELSE q

\* [val |-> idx, end |-> *pp after the call]
parse_face_index(d, q) ==
    CHOOSE r \in {[val |-> i.val, end |-> SkipRefs(d, i.end)] :
                    i \in {parse_int(d, q)}} : TRUE

ToEol(d, q) == Scan(d, q, "not eol")

\* "Skip to next line": while (*p && *p != '\n') p++; if (*p == '\n') p++;
SkipLine(d, q) ==
    CHOOSE n \in {IF At(d, e) = NL THEN e + 1 ELSE e : e \in {ToEol(d, q)}} : TRUE

\* the counters of count_elements are C ints; past CountCap every value is
\* above MAX_FACES + 2 and decides the capacity test the same way.  A loop
\* turn that leaves its position where it was is repeated without end; once
\* its counter has reached CountCap such a turn no longer changes the state
CountCap == MAX_FACES + 3
Bump(n, k) == IF n + k > CountCap THEN CountCap ELSE n + k

(***************************************************************************)
(* render3d.c: meshes.  malloc leaves the arrays unwritten, so an array is *)
(* the function from the slots written so far to their values; beside it   *)
(* the model logs how often each slot was written.                         *)
(***************************************************************************)
\* a value stored into a uint16_t
ToU16(n) == n % 65536

\* a mesh with room for one vertex fewer than asked for
mesh_create_short(max_verts, max_faces, ok) ==
    IF ~ok THEN NULL
    ELSE [max_verts |-> ToU16(max_verts - 1), max_faces |-> ToU16(max_faces),
          vertices |-> <<>>, faces |-> <<>>,
          vertex_writes |-> <<>>, face_writes |-> <<>>,
          vertex_count |-> 0, normal_count |-> 0, face_count |-> 0]

\* mesh_create(max_verts, max_faces); ok: whether every malloc succeeded
mesh_create(max_verts, max_faces, ok) ==
    IF ~ok THEN NULL
    ELSE [max_verts |-> ToU16(max_verts), max_faces |-> ToU16(max_faces),
          vertices |-> <<>>, faces |-> <<>>,
          vertex_writes |-> <<>>, face_writes |-> <<>>,
          vertex_count |-> 0, normal_count |-> 0, face_count |-> 0]

\* a[k] = val
Put(a, k, val) == [j \in DOMAIN a \cup {k} |-> IF j = k THEN val ELSE a[j]]
Logged(w, k) == Put(w, k, IF k \in DOMAIN w THEN w[k] + 1 ELSE 1)

\* mesh->vertices[k] = val
SetVertex(m, k, val) ==
    [m EXCEPT !.vertices = Put(@, k, val), !.vertex_writes = Logged(@, k)]

\* mesh->faces[k].v[0..2] = v; mesh->faces[k].color = color
SetFace(m, k, v, color) ==
    [m EXCEPT !.faces = Put(@, k, [v |-> <<ToU16(v[1]), ToU16(v[2]), ToU16(v[3])>>,
                                   color |-> color]),
              !.face_writes = Logged(@, k)]

RECURSIVE SetVertices(_, _, _)
\* mesh->vertices[k] = vals[1]; mesh->vertices[k + 1] = vals[2]; ...
SetVertices(m, k, vals) ==
    IF vals = <<>> THEN m
    ELSE SetVertices(SetVertex(m, k, Head(vals)), k + 1, Tail(vals))

RECURSIVE SetFaces(_, _, _)
\* mesh->faces[k] = fs[1]; mesh->faces[k + 1] = fs[2]; ...
SetFaces(m, k, fs) ==
    IF fs = <<>> THEN m
    ELSE SetFaces(SetFace(m, k, Head(fs).v, Head(fs).color), k + 1, Tail(fs))

\* mesh_calculate_normals: one normal per vertex (the values are not modelled)
mesh_calculate_normals(m) == [m EXCEPT !.normal_count = m.vertex_count]

\* mesh->vertex_count = nverts; mesh->face_count = nfaces;
\* mesh_calculate_normals(mesh): how every producer finishes its mesh
Finished(m, nverts, nfaces) ==
    mesh_calculate_normals(
        [m EXCEPT !.vertex_count = ToU16(nverts), !.face_count = ToU16(nfaces)])

snprintf_once(buf, msg) == IF buf = <<>> THEN msg ELSE buf

\* snprintf(error_msg, sizeof(error_msg), ...): the buffer is overwritten
\* (every message of the loader is shorter than the 128 bytes)
snprintf(buf, msg) == msg

TooLargeFacesOnly(nverts, nfaces) == nfaces > MAX_FACES

\* the capacity test of line 115
TooLarge(nverts, nfaces) == nverts > MAX_VERTICES \/ nfaces > MAX_FACES

\* no builder is running
BldIdle ==
    /\ bpc = "idle" /\ builder = "none" /\ seg_arg = 0 /\ segments = 0
    /\ rings = 0 /\ slices = 0 /\ bvi = 0 /\ bfi = 0 /\ ring = 0 /\ slice = 0
    /\ bi = 0 /\ bmesh = NULL /\ bret = NULL

\* static uint8_t frame_buffer[SSD1306_WIDTH * SSD1306_HEIGHT / 8], zero at start
ZeroFrame == [k \in 0..((SSD1306_WIDTH * SSD1306_HEIGHT) \div 8 - 1) |-> 0]

\* no render context has been initialised
RndIdle ==
    /\ zbuffer = <<>> /\ light = NULL /\ frame_buffer = ZeroFrame
    /\ frags = <<>> /\ draws = 0 /\ last_op = "none"
    /\ before = [depth |-> FALSE, lit |-> FALSE]
    /\ camera = NULL /\ view_matrix = NULL /\ proj_matrix = NULL /\ drawn = NULL

\* static render_ctx_t render_ctx: zero before render3d_init
ZeroCtx == [zbuffer |-> 0, colorbuffer |-> 0, framebuffer |-> 0, width |-> 0,
            height |-> 0]

\* no call yet: [op, n (calls so far), ret, first (the index the call's first
\* block gets), fail (which of its mallocs return NULL), ub (the call freed a
\* block a second time), aborted (and the allocator stopped the program)]
NoCall == [op |-> "none", n |-> 0, ret |-> 0, first |-> 1, fail |-> <<>>,
           ub |-> FALSE, aborted |-> FALSE]

\* nothing has been allocated
MemIdle == memory = <<>> /\ ctx = ZeroCtx /\ build = 0 /\ mem_call = NoCall

\* render3d_draw_line has not been called directly
NoLine == [n |-> 0, ends |-> <<>>, before |-> <<>>, path |-> <<>>, ub |-> FALSE,
           returned |-> TRUE]

\* dither_pixel, ssd1306_set_pixel and render3d_draw_line have not been
\* called directly
PixIdle ==
    dither_calls = <<>> /\ pixel_call = NULL /\ line_call = NoLine /\ tile_calls = <<>>

\* the buzzer driver has not been initialised, the face has not been started
AppOff == buzzer = NULL /\ played = NULL /\ face = NULL

\* what every action of the loader leaves alone
ObjFrame == UNCHANGED <<history, bldvars, rndvars, memvars, pixvars, appvars>>

(***************************************************************************)
(* obj_load_from_string, one action per loop turn                          *)
(***************************************************************************)
\* lines 101-108: the null check, then count_elements starts
obj_load_entry ==
    /\ pc = "entry"
    /\ IF obj_data = NULL_TEXT
       THEN /\ error_msg' = snprintf(error_msg, <<"Null data pointer">>)
            /\ ret' = NULL
            /\ pc' = "done"
            /\ UNCHANGED <<cnt_p, vert_count, face_count>>
       ELSE /\ pc' = "count"
            /\ cnt_p' = 1
            /\ vert_count' = 0
            /\ face_count' = 0
            /\ UNCHANGED <<error_msg, ret>>
    /\ UNCHANGED <<obj_data, default_color, records, line, face_verts, p, vi, fi,
                   nv, face_indices, mesh, heap>>
    /\ ObjFrame

\* count_elements, one turn of the outer while (*p) up to a face record
count_elements_line ==
    /\ pc = "count"
    /\ \E q \in {skip_ws(obj_data, cnt_p)} :
       IF At(obj_data, cnt_p) = NUL
       THEN /\ pc' = "check"
            /\ UNCHANGED <<cnt_p, line, face_verts, vert_count>>
       ELSE IF At(obj_data, q) = "v" /\ At(obj_data, q + 1) = " "
       THEN /\ vert_count' = Bump(vert_count, 1)
            /\ cnt_p' = SkipLine(obj_data, q)
            /\ UNCHANGED <<pc, line, face_verts>>
       ELSE IF At(obj_data, q) = "f" /\ At(obj_data, q + 1) = " "
       THEN /\ cnt_p' = q
            /\ line' = q + 2
            /\ face_verts' = 0
            /\ pc' = "count_face"
            /\ UNCHANGED vert_count
       ELSE /\ cnt_p' = SkipLine(obj_data, q)
            /\ UNCHANGED <<pc, line, face_verts, vert_count>>
    /\ UNCHANGED <<obj_data, default_color, records, face_count, p, vi, fi, nv,
                   face_indices, mesh, ret, error_msg, heap>>
    /\ ObjFrame

\* count_elements, one turn of the inner while (*line && *line != '\n'),
\* or its exit: the triangle count and the skip to the next line
count_elements_face ==
    /\ pc = "count_face"
    /\ IF At(obj_data, line) # NUL /\ At(obj_data, line) # NL
       THEN \E l \in {skip_ws(obj_data, line)} :
            IF At(obj_data, l) # NUL /\ At(obj_data, l) # NL
            THEN /\ line' = parse_face_index(obj_data, l).end
                 /\ face_verts' = Bump(face_verts, 1)
                 /\ UNCHANGED <<pc, cnt_p, face_count>>
            ELSE /\ line' = l
                 /\ UNCHANGED <<pc, cnt_p, face_count, face_verts>>
       ELSE /\ face_count' = IF face_verts >= 3
                             THEN Bump(face_count, face_verts - 2)
                             ELSE face_count
            /\ cnt_p' = SkipLine(obj_data, cnt_p)
            /\ pc' = "count"
            /\ UNCHANGED <<line, face_verts>>
    /\ UNCHANGED <<obj_data, default_color, records, vert_count, p, vi, fi, nv,
                   face_indices, mesh, ret, error_msg, heap>>
    /\ ObjFrame

\* lines 110-134: the capacity tests and mesh_create
obj_load_check ==
    /\ pc = "check"
    /\ \E ok \in BOOLEAN :
       IF vert_count = 0
       THEN /\ error_msg' = snprintf(error_msg, <<"No vertices found">>)
            /\ ret' = NULL
            /\ pc' = "done"
            /\ UNCHANGED <<mesh, heap, p, vi, fi>>
       ELSE IF TooLarge(vert_count, face_count)
       THEN /\ error_msg' = snprintf(error_msg, <<"Model too large", vert_count, face_count,
                              MAX_VERTICES, MAX_FACES>>)
            /\ ret' = NULL
            /\ pc' = "done"
            /\ UNCHANGED <<mesh, heap, p, vi, fi>>
       ELSE IF mesh_create(vert_count + 1, face_count + 1, ok) = NULL
       THEN /\ error_msg' = snprintf(error_msg, <<"Failed to allocate mesh">>)
            /\ ret' = NULL
            /\ pc' = "done"
            /\ UNCHANGED <<mesh, heap, p, vi, fi>>
       ELSE /\ mesh' = mesh_create(vert_count + 1, face_count + 1, ok)
            /\ heap' = heap + 1
            /\ p' = 1
            /\ vi' = 0
            /\ fi' = 0
            /\ pc' = "parse"
            /\ UNCHANGED <<error_msg, ret>>
    /\ UNCHANGED <<obj_data, default_color, records, cnt_p, line, face_verts,
                   vert_count, face_count, nv, face_indices>>
    /\ ObjFrame

ResolveIndexAbs(idx, n) == IF idx < 0 THEN (0 - idx) - 1 ELSE idx - 1

\* idx of a face token: 1-based to 0-based, negative relative to vi (l.159-160)
ResolveIndex(idx, n) == IF idx < 0 THEN n + idx ELSE idx - 1

RECURSIVE FanStrip(_, _, _, _, _)
FanStrip(ix, n, i, room, color) ==
    IF i < n - 1 /\ room > 0
    THEN <<[v |-> <<ix[i], ix[i + 1], ix[i + 2]>>, color |-> color]>>
         \o FanStrip(ix, n, i + 1, room - 1, color)
    ELSE <<>>

IndexValidInclusive(idx, n) == idx >= 0 /\ idx <= n

\* line 162: the index names a vertex read so far
IndexValid(idx, n) == idx >= 0 /\ idx < n

\* lines 169-175: the fan of face_indices[0..n-1], at most room triangles
RECURSIVE Fan(_, _, _, _, _)
Fan(ix, n, i, room, color) ==
    IF i < n - 1 /\ room > 0
    THEN <<[v |-> <<ix[1], ix[i + 1], ix[i + 2]>>, color |-> color]>>
         \o Fan(ix, n, i + 1, room - 1, color)
    ELSE <<>>

\* lines 136-146, 178-190: one turn of the outer while (*p) up to a face
\* record, or the end of the text: counts, normals, "OK" and the return
obj_load_line ==
    /\ pc = "parse"
    /\ \E q \in {skip_ws(obj_data, p)} :
       IF At(obj_data, p) = NUL
       THEN /\ ret' = Finished(mesh, vi, fi)
            /\ mesh' = ret'
            /\ error_msg' = snprintf(error_msg, <<"OK", vi, fi>>)
            /\ pc' = "done"
            /\ UNCHANGED <<p, vi, nv, face_indices>>
       ELSE IF At(obj_data, q) = "v" /\ At(obj_data, q + 1) = " "
       THEN \E x \in {parse_float(obj_data, q + 2)} :
            \E y \in {parse_float(obj_data, x.end)} :
            \E z \in {parse_float(obj_data, y.end)} :
                /\ mesh' = SetVertex(mesh, vi, <<x.val, y.val, z.val>>)
                /\ vi' = vi + 1
                /\ p' = SkipLine(obj_data, z.end)
                /\ UNCHANGED <<pc, nv, face_indices, ret, error_msg>>
       ELSE IF At(obj_data, q) = "f" /\ At(obj_data, q + 1) = " "
       THEN /\ p' = q + 2
            /\ nv' = 0
            /\ face_indices' = <<>>
            /\ pc' = "parse_face"
            /\ UNCHANGED <<vi, mesh, ret, error_msg>>
       ELSE /\ p' = SkipLine(obj_data, q)
            /\ UNCHANGED <<pc, vi, nv, face_indices, mesh, ret, error_msg>>
    /\ UNCHANGED <<obj_data, default_color, records, cnt_p, line, face_verts,
                   vert_count, face_count, fi, heap>>
    /\ ObjFrame

\* lines 153-176: one turn of while (*p && *p != '\n' && nv < 16), or its
\* exit: the fan triangulation and the skip to the next line
obj_load_face ==
    /\ pc = "parse_face"
    /\ IF At(obj_data, p) # NUL /\ At(obj_data, p) # NL /\ nv < MAX_NGON
       THEN \E q \in {skip_ws(obj_data, p)} :
            IF At(obj_data, q) # NUL /\ At(obj_data, q) # NL
               /\ ~isspace(At(obj_data, q))
            THEN \E t \in {parse_face_index(obj_data, q)} :
                 \E idx \in {ResolveIndex(t.val, vi)} :
                     /\ p' = t.end
                     /\ IF IndexValid(idx, vi)
                        THEN /\ face_indices' = Append(face_indices, idx)
                             /\ nv' = nv + 1
                        ELSE UNCHANGED <<face_indices, nv>>
                     /\ UNCHANGED <<pc, fi, mesh>>
            ELSE /\ p' = q
                 /\ UNCHANGED <<pc, fi, mesh, face_indices, nv>>
       ELSE \E tris \in {Fan(face_indices, nv, 1, face_count - fi, default_color)} :
            /\ mesh' = SetFaces(mesh, fi, tris)
            /\ fi' = fi + Len(tris)
            /\ p' = SkipLine(obj_data, p)
            /\ pc' = "parse"
            /\ UNCHANGED <<face_indices, nv>>
    /\ UNCHANGED <<obj_data, default_color, records, cnt_p, line, face_verts,
                   vert_count, face_count, vi, ret, error_msg, heap>>
    /\ ObjFrame

(***************************************************************************)
(* The OBJ texts the loader is run on.  A text is written from a sequence  *)
(* of records, so that what the loader returns can be compared with what   *)
(* the text says.                                                          *)
(***************************************************************************)
RECURSIVE NatToChars(_)
NatToChars(n) ==
    IF n < 10 THEN <<Digits[n + 1]>>
    ELSE NatToChars(n \div 10) \o <<Digits[(n % 10) + 1]>>

IntToChars(n) == IF n < 0 THEN <<"-">> \o NatToChars(0 - n) ELSE NatToChars(n)

\* a face token: the vertex index alone or with texture/normal references
TokenChars(t) ==
    IntToChars(t.v) \o
    (CASE t.form = "v" -> <<>>
       [] t.form = "v/t" -> <<"/", "1">>
       [] t.form = "v//n" -> <<"/", "/", "1">>
       [] t.form = "v/t/n" -> <<"/", "1", "/", "1">>)

RECURSIVE JoinTokens(_)
JoinTokens(ts) ==
    IF ts = <<>> THEN <<>>
    ELSE <<" ">> \o TokenChars(Head(ts)) \o JoinTokens(Tail(ts))

RecChars(r) ==
    r.lead \o
    (CASE r.t = "v" -> <<"v", " ">> \o IntToChars(r.c[1]) \o <<" ">>
                       \o IntToChars(r.c[2]) \o <<" ">> \o IntToChars(r.c[3])
       [] r.t = "f" -> <<"f">> \o JoinTokens(r.ix)
       [] r.t = "raw" -> r.text)

RECURSIVE Text(_, _)
\* every record on its own line; the last line ends in '\n' iff nl
Text(recs, nl) ==
    IF recs = <<>> THEN <<>>
    ELSE IF Len(recs) = 1 THEN RecChars(recs[1]) \o (IF nl THEN <<NL>> ELSE <<>>)
    ELSE LET h == Len(recs) \div 2
         IN  Text(SubSeq(recs, 1, h), TRUE) \o Text(SubSeq(recs, h + 1, Len(recs)), nl)

Tok(k) == [v |-> k, form |-> "v"]
VRec == [t |-> "v", lead |-> <<>>, c |-> <<0, 1, -2>>]
FRec(ts) == [t |-> "f", lead |-> <<>>, ix |-> ts]
F123 == FRec(<<Tok(1), Tok(2), Tok(3)>>)
\* relative and absolute indices, indented by a blank and a tab
FRel == [t |-> "f", lead |-> <<" ", "\t">>,
         ix |-> <<Tok(-1), Tok(-2), Tok(-3), Tok(1)>>]
\* texture/normal references and two indices that name no vertex
FMix == FRec(<<[v |-> 1, form |-> "v/t"], [v |-> 2, form |-> "v//n"], Tok(9),
               Tok(0), [v |-> 3, form |-> "v/t/n"]>>)
\* a record of another type, ignored by the loader
VnRec == [t |-> "raw", lead |-> <<>>,
          text |-> <<"v", "n", " ", "0", " ", "0", " ", "1">>]
\* a face record followed by a comment
FComment == [t |-> "raw", lead |-> <<>>,
             text |-> <<"f", " ", "1", " ", "2", " ", "3", " ", "#", "c">>]

Vocab == {VRec, F123, FRel, FMix, VnRec}

Rep(r, n) == [k \in 1..n |-> r]

UpTo(a, b) == [k \in 1..(b - a + 1) |-> Tok(a + k - 1)]

\* n vertices and one n-gon over them
Ngon(n) == Rep(VRec, n) \o <<FRec(UpTo(1, n))>>

SmallTexts == UNION {[1..n -> Vocab] : n \in 0..MaxRecs}
NgonTexts == {Ngon(n) : n \in 2..(MAX_NGON + 1)}
\* face records that carry a trailing comment
CommentTexts == {<<FComment>>, <<VRec, VRec, VRec, FComment>>,
                 <<VRec, VRec, VRec, F123, FComment, VRec>>}
\* at and just above each capacity
BulkTexts == {Rep(VRec, MAX_VERTICES), Rep(VRec, MAX_VERTICES + 1),
              Rep(VRec, 3) \o Rep(F123, MAX_FACES),
              Rep(VRec, 3) \o Rep(F123, MAX_FACES + 1)}

Colors == {<<255, 255, 255>>, <<200, 100, 100>>}

\* the arguments of a call: [data, recs, color]
ObjArgs ==
    {[data |-> Text(r, nl), recs |-> r, color |-> c] :
        r \in SmallTexts \cup NgonTexts \cup CommentTexts, nl \in {TRUE}, c \in Colors}
    \cup {[data |-> Text(r, TRUE), recs |-> r, color |-> <<255, 255, 255>>] :
            r \in BulkTexts}
    \cup {[data |-> Text(r, FALSE), recs |-> r, color |-> <<255, 255, 255>>] :
            r \in {<<VRec>>, <<VRec, F123>>, <<VRec, VRec, VRec, FRel>>}}
    \cup {[data |-> NULL_TEXT, recs |-> <<>>, color |-> <<255, 255, 255>>]}

\* a call of obj_load_from_string(a.data, a.color) begins
Enter(a) ==
    /\ obj_data' = a.data
    /\ records' = a.recs
    /\ default_color' = a.color
    /\ pc' = "entry"

InitObj ==
    /\ \E a \in ObjArgs :
        /\ obj_data = a.data
        /\ records = a.recs
        /\ default_color = a.color
    /\ pc = "entry"
    /\ cnt_p = 1 /\ line = 1 /\ face_verts = 0
    /\ vert_count = 0 /\ face_count = 0
    /\ p = 1 /\ vi = 0 /\ fi = 0 /\ nv = 0 /\ face_indices = <<>>
    /\ mesh = NULL
    /\ ret = NULL
    /\ error_msg = <<>>
    /\ heap = 0
    /\ history = <<>>
    /\ BldIdle
    /\ RndIdle /\ MemIdle /\ PixIdle /\ AppOff

NextObj ==
    \/ obj_load_entry
    \/ count_elements_line
    \/ count_elements_face
    \/ obj_load_check
    \/ obj_load_line
    \/ obj_load_face

SpecObj == InitObj /\ [][NextObj]_vars

\* the call runs on one thread and is never suspended: a step that can be
\* taken is taken
SpecObjLive == InitObj /\ [][NextObj]_vars /\ WF_vars(NextObj)

(***************************************************************************)
(* A caller that loads one text after another (SpecObjCalls)               *)
(***************************************************************************)
MaxCalls == 2         \* earlier calls remembered in history

CallArgs ==
    {[data |-> Text(r, TRUE), recs |-> r, color |-> <<255, 255, 255>>] :
        r \in {Ngon(3), <<>>, <<VRec, VRec, VRec, FMix>>, <<VnRec, F123>>,
               Rep(VRec, MAX_VERTICES + 1)}}
    \cup {[data |-> NULL_TEXT, recs |-> <<>>, color |-> <<255, 255, 255>>]}

\* the caller calls obj_load_from_string again (the mesh returned before
\* stays with the caller)
obj_call ==
    /\ pc \in {"idle", "done"}
    /\ Len(history) < (IF pc = "done" THEN MaxCalls ELSE MaxCalls + 1)
    /\ history' = IF pc = "done" THEN Append(history, ret # NULL) ELSE history
    /\ \E a \in CallArgs : Enter(a)
    /\ cnt_p' = 1 /\ line' = 1 /\ face_verts' = 0
    /\ vert_count' = 0 /\ face_count' = 0
    /\ p' = 1 /\ vi' = 0 /\ fi' = 0 /\ nv' = 0 /\ face_indices' = <<>>
    /\ mesh' = NULL
    /\ UNCHANGED <<ret, error_msg, heap, bldvars, rndvars, memvars, pixvars, appvars>>

\* obj_load_from_string has not been called
ObjIdle ==
    /\ obj_data = NULL_TEXT /\ records = <<>> /\ default_color = <<255, 255, 255>>
    /\ pc = "idle"
    /\ cnt_p = 1 /\ line = 1 /\ face_verts = 0
    /\ vert_count = 0 /\ face_count = 0
    /\ p = 1 /\ vi = 0 /\ fi = 0 /\ nv = 0 /\ face_indices = <<>>
    /\ mesh = NULL
    /\ ret = NULL
    /\ error_msg = <<>>
    /\ heap = 0
    /\ history = <<>>

InitObjCalls == ObjIdle /\ BldIdle /\ RndIdle /\ MemIdle /\ PixIdle /\ AppOff

NextObjCalls ==
    \/ obj_call
    \/ obj_load_entry
    \/ count_elements_line
    \/ count_elements_face
    \/ obj_load_check
    \/ obj_load_line
    \/ obj_load_face

SpecObjCalls == InitObjCalls /\ [][NextObjCalls]_vars


(***************************************************************************)
(* render3d.c: the procedural builders, one action per loop turn; the      *)
(* straight-line stores before and after a loop belong to the turn that    *)
(* enters or leaves it.  A vertex is stored as what names it (the trig     *)
(* values of the coordinates are not modelled).                            *)
(***************************************************************************)
MinSegments == 4
MaxSegments == 16
SegSlack == 2         \* how far beyond the clamp range the segment arguments go

BldFrame == UNCHANGED <<objvars, rndvars, memvars, pixvars, appvars>>

\* the builder returns value
BldReturn(value) ==
    /\ bret' = value
    /\ bpc' = "done"

\* ---- mesh_create_cube -------------------------------------------------
\* the corners, in units of h = size / 2
CubeVertices ==
    << <<-1, -1, -1>>, <<1, -1, -1>>, <<1, 1, -1>>, <<-1, 1, -1>>,
       <<-1, -1, 1>>, <<1, -1, 1>>, <<1, 1, 1>>, <<-1, 1, 1>> >>

CubeFaces ==
    << <<0, 1, 2>>, <<0, 2, 3>>, <<5, 4, 7>>, <<5, 7, 6>>, <<4, 0, 3>>, <<4, 3, 7>>,
       <<1, 5, 6>>, <<1, 6, 2>>, <<3, 2, 6>>, <<3, 6, 7>>, <<4, 5, 1>>, <<4, 1, 0>> >>

CubeColors ==
    << <<255, 200, 200>>, <<255, 200, 200>>, <<200, 200, 255>>, <<200, 200, 255>>,
       <<200, 255, 200>>, <<200, 255, 200>>, <<255, 255, 200>>, <<255, 255, 200>>,
       <<255, 200, 255>>, <<255, 200, 255>>, <<200, 255, 255>>, <<200, 255, 255>> >>

\* lines 654-668: mesh_create(8, 12) and the eight corners
mesh_create_cube ==
    /\ bpc = "call" /\ builder = "cube"
    /\ \E ok \in BOOLEAN :
       IF mesh_create(8, 12, ok) = NULL
       THEN /\ BldReturn(NULL)
            /\ UNCHANGED <<bmesh, bi>>
       ELSE /\ bmesh' = [SetVertices(mesh_create(8, 12, ok), 0, CubeVertices)
                           EXCEPT !.vertex_count = 8]
            /\ bi' = 0
            /\ bpc' = "cube_faces"
            /\ UNCHANGED bret
    /\ UNCHANGED <<builder, seg_arg, segments, rings, slices, bvi, bfi, ring, slice>>
    /\ BldFrame

\* lines 689-698: one turn of for (i < 12), or the return
mesh_cube_face ==
    /\ bpc = "cube_faces"
    /\ IF bi < 12
       THEN /\ bmesh' = SetFace(bmesh, bi, CubeFaces[bi + 1], CubeColors[bi + 1])
            /\ bi' = bi + 1
            /\ UNCHANGED <<bpc, bret>>
       ELSE /\ bmesh' = Finished(bmesh, bmesh.vertex_count, 12)
            /\ BldReturn(bmesh')
            /\ UNCHANGED bi
    /\ UNCHANGED <<builder, seg_arg, segments, rings, slices, bvi, bfi, ring, slice>>
    /\ BldFrame

\* ---- mesh_create_sphere -----------------------------------------------
ClampSegmentsHigh(n) == IF n > MaxSegments THEN MaxSegments ELSE n

\* lines 702-703
ClampSegments(n) ==
    IF n < MinSegments THEN MinSegments
    ELSE IF n > MaxSegments THEN MaxSegments ELSE n

\* lines 707-708
SphereVertCount(nrings, nslices) == (nrings - 1) * nslices + 2
SphereFaceCount(nrings, nslices) == (nrings - 2) * nslices * 2 + nslices * 2

SphereColor == <<255, 220, 180>>

\* the vertex of ring r at slice s; the poles are rings 0 and nrings
SphereVertex(r, s) == [ring |-> r, slice |-> s]

\* lines 743-745: the top cap triangle of slice s
SphereTopFace(s, nslices) == <<0, 1 + s, 1 + ((s + 1) % nslices)>>

\* lines 752-766: the two triangles of the quad below ring r at slice s
SphereQuadFaces(r, s, nslices) ==
    << <<1 + r * nslices + s, 1 + (r + 1) * nslices + s,
         1 + (r + 1) * nslices + ((s + 1) % nslices)>>,
       <<1 + r * nslices + s, 1 + (r + 1) * nslices + ((s + 1) % nslices),
         1 + r * nslices + ((s + 1) % nslices)>> >>

\* lines 776-778: the bottom cap triangle of slice s
SphereBottomFace(bottom, last_ring, s, nslices) ==
    <<bottom, last_ring + ((s + 1) % nslices), last_ring + s>>

\* lines 702-715: the clamp, the counts, mesh_create and the top vertex
mesh_create_sphere ==
    /\ bpc = "call" /\ builder = "sphere"
    /\ segments' = ClampSegments(segments)
    /\ rings' = segments'
    /\ slices' = segments' * 2
    /\ \E ok \in BOOLEAN :
       IF mesh_create(SphereVertCount(rings', slices'),
                      SphereFaceCount(rings', slices'), ok) = NULL
       THEN /\ BldReturn(NULL)
            /\ UNCHANGED <<bmesh, bvi, ring, slice>>
       ELSE /\ bmesh' = SetVertex(mesh_create(SphereVertCount(rings', slices'),
                                              SphereFaceCount(rings', slices'), ok),
                                  0, SphereVertex(0, 0))
            /\ bvi' = 1
            /\ ring' = 1
            /\ slice' = 0
            /\ bpc' = "sphere_rings"
            /\ UNCHANGED bret
    /\ UNCHANGED <<builder, seg_arg, bfi, bi>>
    /\ BldFrame

\* lines 718-738: one turn of the ring loops, or the bottom vertex
mesh_sphere_vertex ==
    /\ bpc = "sphere_rings"
    /\ IF ring < rings
       THEN IF slice < slices
            THEN /\ bmesh' = SetVertex(bmesh, bvi, SphereVertex(ring, slice))
                 /\ bvi' = bvi + 1
                 /\ slice' = slice + 1
                 /\ UNCHANGED <<ring, bfi, bpc>>
            ELSE /\ ring' = ring + 1
                 /\ slice' = 0
                 /\ UNCHANGED <<bmesh, bvi, bfi, bpc>>
       ELSE /\ bmesh' = [SetVertex(bmesh, bvi, SphereVertex(rings, 0))
                           EXCEPT !.vertex_count = ToU16(bvi + 1)]
            /\ bfi' = 0
            /\ slice' = 0
            /\ bpc' = "sphere_top_cap"
            /\ UNCHANGED <<bvi, ring>>
    /\ UNCHANGED <<builder, seg_arg, segments, rings, slices, bi, bret>>
    /\ BldFrame

\* lines 742-748: one turn of the top cap loop
mesh_sphere_top_face ==
    /\ bpc = "sphere_top_cap"
    /\ IF slice < slices
       THEN /\ bmesh' = SetFace(bmesh, bfi, SphereTopFace(slice, slices), SphereColor)
            /\ bfi' = bfi + 1
            /\ slice' = slice + 1
            /\ UNCHANGED <<ring, bpc>>
       ELSE /\ ring' = 0
            /\ slice' = 0
            /\ bpc' = "sphere_middle"
            /\ UNCHANGED <<bmesh, bfi>>
    /\ UNCHANGED <<builder, seg_arg, segments, rings, slices, bvi, bi, bret>>
    /\ BldFrame

\* lines 751-770: one turn of the middle loops (two triangles)
mesh_sphere_quad ==
    /\ bpc = "sphere_middle"
    /\ IF ring < rings - 2
       THEN IF slice < slices
            THEN /\ bmesh' = SetFace(
                               SetFace(bmesh, bfi,
                                       SphereQuadFaces(ring, slice, slices)[1],
                                       SphereColor),
                               bfi + 1, SphereQuadFaces(ring, slice, slices)[2],
                               SphereColor)
                 /\ bfi' = bfi + 2
                 /\ slice' = slice + 1
                 /\ UNCHANGED <<ring, bpc>>
            ELSE /\ ring' = ring + 1
                 /\ slice' = 0
                 /\ UNCHANGED <<bmesh, bfi, bpc>>
       ELSE /\ slice' = 0
            /\ bpc' = "sphere_bottom_cap"
            /\ UNCHANGED <<bmesh, bfi, ring>>
    /\ UNCHANGED <<builder, seg_arg, segments, rings, slices, bvi, bi, bret>>
    /\ BldFrame

\* lines 773-785: one turn of the bottom cap loop, or the return
mesh_sphere_bottom_face ==
    /\ bpc = "sphere_bottom_cap"
    /\ IF slice < slices
       THEN /\ bmesh' = SetFace(bmesh, bfi,
                                SphereBottomFace(bmesh.vertex_count - 1,
                                                 1 + (rings - 2) * slices,
                                                 slice, slices),
                                SphereColor)
            /\ bfi' = bfi + 1
            /\ slice' = slice + 1
            /\ UNCHANGED <<bpc, bret>>
       ELSE /\ bmesh' = Finished(bmesh, bmesh.vertex_count, bfi)
            /\ BldReturn(bmesh')
            /\ UNCHANGED <<bfi, slice>>
    /\ UNCHANGED <<builder, seg_arg, segments, rings, slices, bvi, ring, bi>>
    /\ BldFrame

\* ---- mesh_create_face -------------------------------------------------
\* lines 802-830, in hundredths
FaceVertices ==
    << <<0, 60, 25>>, <<-40, 36, 50>>, <<40, 36, 50>>, <<-50, 0, 50>>,
       <<50, 0, 50>>, <<-30, -48, 40>>, <<30, -48, 40>>, <<0, -60, 30>>,
       <<0, 0, 55>>,
       <<-35, 15, 55>>, <<-50, 15, 52>>, <<-20, 15, 52>>, <<-35, 25, 52>>,
       <<-35, 5, 52>>,
       <<35, 15, 55>>, <<20, 15, 52>>, <<50, 15, 52>>, <<35, 25, 52>>,
       <<35, 5, 52>>,
       <<-15, -25, 52>>, <<15, -25, 52>>, <<0, -20, 53>>, <<0, -30, 52>> >>

\* lines 838-845: face_tris
FaceSkinTris ==
    << <<0, 1, 2>>, <<1, 3, 4>>, <<1, 4, 2>>, <<3, 5, 6>>, <<3, 6, 4>>,
       <<5, 7, 6>>, <<1, 8, 3>>, <<3, 8, 5>>, <<2, 4, 8>>, <<4, 6, 8>> >>

FaceSkin == <<255, 220, 190>>
FaceEyeWhite == <<255, 255, 255>>
FaceMouth == <<200, 100, 100>>

\* lines 856-879: the eyes and the mouth
FaceFeatureTris ==
    << [v |-> <<10, 12, 9>>, color |-> FaceEyeWhite],
       [v |-> <<9, 12, 11>>, color |-> FaceEyeWhite],
       [v |-> <<10, 9, 13>>, color |-> FaceEyeWhite],
       [v |-> <<9, 11, 13>>, color |-> FaceEyeWhite],
       [v |-> <<15, 17, 14>>, color |-> FaceEyeWhite],
       [v |-> <<14, 17, 16>>, color |-> FaceEyeWhite],
       [v |-> <<15, 14, 18>>, color |-> FaceEyeWhite],
       [v |-> <<14, 16, 18>>, color |-> FaceEyeWhite],
       [v |-> <<19, 21, 20>>, color |-> FaceMouth],
       [v |-> <<19, 20, 22>>, color |-> FaceMouth] >>

\* lines 790-835: mesh_create(32, 40) and the 23 vertices
mesh_create_face ==
    /\ bpc = "call" /\ builder = "face"
    /\ \E ok \in BOOLEAN :
       IF mesh_create(32, 40, ok) = NULL
       THEN /\ BldReturn(NULL)
            /\ UNCHANGED <<bmesh, bfi, bi>>
       ELSE /\ bmesh' = [SetVertices(mesh_create(32, 40, ok), 0, FaceVertices)
                           EXCEPT !.vertex_count = 23]
            /\ bfi' = 0
            /\ bi' = 0
            /\ bpc' = "face_skin"
            /\ UNCHANGED bret
    /\ UNCHANGED <<builder, seg_arg, segments, rings, slices, bvi, ring, slice>>
    /\ BldFrame

\* lines 847-884: one turn of for (i < 10), or the eyes, the mouth and the
\* return
mesh_face_tri ==
    /\ bpc = "face_skin"
    /\ IF bi < 10
       THEN /\ bmesh' = SetFace(bmesh, bfi, FaceSkinTris[bi + 1], FaceSkin)
            /\ bfi' = bfi + 1
            /\ bi' = bi + 1
            /\ UNCHANGED <<bpc, bret>>
       ELSE /\ bmesh' = Finished(SetFaces(bmesh, bfi, FaceFeatureTris),
                                 bmesh.vertex_count, bfi + Len(FaceFeatureTris))
            /\ bfi' = bfi + Len(FaceFeatureTris)
            /\ BldReturn(bmesh')
            /\ UNCHANGED bi
    /\ UNCHANGED <<builder, seg_arg, segments, rings, slices, bvi, ring, slice>>
    /\ BldFrame

\* ---- mesh_create_cake -------------------------------------------------
CakeSegments == 8

CakeColor == <<255, 180, 140>>
CakeFrosting == <<255, 200, 210>>
CakeCandle == <<255, 255, 200>>
CakeFlame == <<255, 200, 80>>

\* lines 929-946: the frosting centre, the candle corners, the flame
CakeTopVertices ==
    <<[ring |-> 3, slice |-> 0]>>
    \o [k \in 1..8 |-> [ring |-> 4, slice |-> k - 1]]
    \o <<[ring |-> 5, slice |-> 0], [ring |-> 5, slice |-> 1]>>

\* lines 956-964 (base = 0) and 972-979 (base = segments): the two triangles
\* of the side quad at i
CakeSideFaces(base, i, n) ==
    << <<base + i, base + ((i + 1) % n), base + n + i>>,
       <<base + ((i + 1) % n), base + n + ((i + 1) % n), base + n + i>> >>

\* lines 988-990
CakeTopFace(i, n) == <<3 * n, 2 * n + i, 2 * n + ((i + 1) % n)>>

\* lines 996-1033: the candle and the flame; cv = frost_center + 1
CakeCandleTris(cv) ==
    [k \in 1..10 |->
        [v |-> << <<cv, cv + 1, cv + 4>>, <<cv + 1, cv + 5, cv + 4>>,
                  <<cv + 1, cv + 2, cv + 5>>, <<cv + 2, cv + 6, cv + 5>>,
                  <<cv + 2, cv + 3, cv + 6>>, <<cv + 3, cv + 7, cv + 6>>,
                  <<cv + 3, cv, cv + 7>>, <<cv, cv + 4, cv + 7>>,
                  <<cv + 4, cv + 5, cv + 6>>, <<cv + 4, cv + 6, cv + 7>> >>[k],
         color |-> CakeCandle]]
    \o [k \in 1..4 |->
        [v |-> << <<cv + 4, cv + 5, cv + 9>>, <<cv + 5, cv + 6, cv + 9>>,
                  <<cv + 6, cv + 7, cv + 9>>, <<cv + 7, cv + 4, cv + 9>> >>[k],
         color |-> CakeFlame]]

\* lines 892-907: mesh_create(36, 56)
mesh_create_cake ==
    /\ bpc = "call" /\ builder = "cake"
    /\ \E ok \in BOOLEAN :
       IF mesh_create(36, 56, ok) = NULL
       THEN /\ BldReturn(NULL)
            /\ UNCHANGED <<bmesh, bvi, segments, ring, bi>>
       ELSE /\ bmesh' = mesh_create(36, 56, ok)
            /\ bvi' = 0
            /\ segments' = CakeSegments
            /\ ring' = 0
            /\ bi' = 0
            /\ bpc' = "cake_rings"
            /\ UNCHANGED bret
    /\ UNCHANGED <<builder, seg_arg, rings, slices, bfi, slice>>
    /\ BldFrame

\* lines 910-950: one turn of the three ring loops (ring tells which), or the
\* eleven vertices after them
mesh_cake_vertex ==
    /\ bpc = "cake_rings"
    /\ IF ring < 3
       THEN IF bi < segments
            THEN /\ bmesh' = SetVertex(bmesh, bvi, [ring |-> ring, slice |-> bi])
                 /\ bvi' = bvi + 1
                 /\ bi' = bi + 1
                 /\ UNCHANGED <<ring, bfi, bpc>>
            ELSE /\ ring' = ring + 1
                 /\ bi' = 0
                 /\ UNCHANGED <<bmesh, bvi, bfi, bpc>>
       ELSE /\ bmesh' = [SetVertices(bmesh, bvi, CakeTopVertices)
                           EXCEPT !.vertex_count = ToU16(bvi + Len(CakeTopVertices))]
            /\ bvi' = bvi + Len(CakeTopVertices)
            /\ bfi' = 0
            /\ ring' = 0
            /\ bi' = 0
            /\ bpc' = "cake_sides"
    /\ UNCHANGED <<builder, seg_arg, segments, rings, slices, slice, bret>>
    /\ BldFrame

\* lines 953-982: one turn of the cake side loop (ring = 0) or of the
\* frosting side loop (ring = 1)
mesh_cake_side ==
    /\ bpc = "cake_sides"
    /\ IF ring < 2
       THEN IF bi < segments
            THEN /\ bmesh' = SetFace(
                               SetFace(bmesh, bfi,
                                       CakeSideFaces(ring * segments, bi, segments)[1],
                                       IF ring = 0 THEN CakeColor ELSE CakeFrosting),
                               bfi + 1,
                               CakeSideFaces(ring * segments, bi, segments)[2],
                               IF ring = 0 THEN CakeColor ELSE CakeFrosting)
                 /\ bfi' = bfi + 2
                 /\ bi' = bi + 1
                 /\ UNCHANGED <<ring, bpc>>
            ELSE /\ ring' = ring + 1
                 /\ bi' = 0
                 /\ UNCHANGED <<bmesh, bfi, bpc>>
       ELSE /\ bi' = 0
            /\ bpc' = "cake_top"
            /\ UNCHANGED <<bmesh, bfi, ring>>
    /\ UNCHANGED <<builder, seg_arg, segments, rings, slices, bvi, slice, bret>>
    /\ BldFrame

\* lines 985-1038: one turn of the frosting top loop, or the candle, the
\* flame and the return
mesh_cake_top ==
    /\ bpc = "cake_top"
    /\ IF bi < segments
       THEN /\ bmesh' = SetFace(bmesh, bfi, CakeTopFace(bi, segments), CakeFrosting)
            /\ bfi' = bfi + 1
            /\ bi' = bi + 1
            /\ UNCHANGED <<bpc, bret>>
       ELSE /\ bmesh' = Finished(SetFaces(bmesh, bfi, CakeCandleTris(3 * segments + 1)),
                                 bmesh.vertex_count, bfi + 14)
            /\ bfi' = bfi + 14
            /\ BldReturn(bmesh')
            /\ UNCHANGED bi
    /\ UNCHANGED <<builder, seg_arg, segments, rings, slices, bvi, ring, slice>>
    /\ BldFrame

\* ---- the calls --------------------------------------------------------
SegArgs == ((MinSegments - 1 - SegSlack)..(MaxSegments + SegSlack)) \cup {100}

BuilderCalls ==
    {[name |-> n, seg |-> 0] : n \in {"cube", "face", "cake"}}
    \cup {[name |-> "sphere", seg |-> g] : g \in SegArgs}

\* a builder has just been called
BldCalled ==
    \E c \in BuilderCalls :
        /\ bpc = "call" /\ builder = c.name /\ seg_arg = c.seg /\ segments = c.seg
        /\ rings = 0 /\ slices = 0 /\ bvi = 0 /\ bfi = 0 /\ ring = 0 /\ slice = 0
        /\ bi = 0 /\ bmesh = NULL /\ bret = NULL

InitMesh == ObjIdle /\ BldCalled /\ RndIdle /\ MemIdle /\ PixIdle /\ AppOff

NextMesh ==
    \/ mesh_create_cube
    \/ mesh_cube_face
    \/ mesh_create_sphere
    \/ mesh_sphere_vertex
    \/ mesh_sphere_top_face
    \/ mesh_sphere_quad
    \/ mesh_sphere_bottom_face
    \/ mesh_create_face
    \/ mesh_face_tri
    \/ mesh_create_cake
    \/ mesh_cake_vertex
    \/ mesh_cake_side
    \/ mesh_cake_top

SpecMesh == InitMesh /\ [][NextMesh]_vars

\* every producer of meshes: a builder call or an obj_load_from_string call
InitProducers == InitMesh \/ InitObj

NextProducers == NextMesh \/ NextObj

SpecProducers == InitProducers /\ [][NextProducers]_vars

(***************************************************************************)
(* render3d.c: the renderer.  Floats are fixed-point integers: screen      *)
(* coordinates in 1/SubPixel pixels, depths in 1/DepthUnit, brightness in  *)
(* 1/BrightUnit; every division rounds down.  A mesh carries the decimal   *)
(* exponent of the unit of its coordinates (exp = 1: tenths).  The meshes  *)
(* drawn keep the pose mesh_create gives them (no translation, rotation or *)
(* scaling), so that the model matrix is the identity.  The cameras handed  *)
(* to render3d_set_camera stand at the origin looking down -z with a 90    *)
(* degree field of view: their view matrix is the identity and tan(fov/2)  *)
(* is 1.                                                                   *)
(***************************************************************************)
CtxWidth == 16        \* render3d_init(ctx, CtxWidth, CtxHeight)
CtxHeight == 16
MaxDraws == 2         \* render3d_draw_mesh calls between two clears

SubPixel == 16
DepthUnit == 256
BrightUnit == 1000

\* the value render3d_clear stores in every depth cell
Z_CLEAR == 1000
ZClear == Z_CLEAR * DepthUnit

\* camera.near_plane and camera.far_plane (the values render3d_init gives
\* them), in tenths
NearTenths == 1
FarTenths == 1000

FloorDiv(a, b) == IF b > 0 THEN a \div b ELSE (0 - a) \div (0 - b)
CeilDiv(a, b) == 0 - FloorDiv(0 - a, b)
Pow10(k) == IF k <= 0 THEN 1 ELSE [j \in 1..8 |-> 10^j][k]

RECURSIVE IsqrtIn(_, _, _)
\* the largest r in lo..hi with r*r <= n
IsqrtIn(n, lo, hi) ==
    IF lo >= hi THEN lo
    ELSE LET m == (lo + hi + 1) \div 2
         IN  IF m * m <= n THEN IsqrtIn(n, m, hi) ELSE IsqrtIn(n, lo, m - 1)

\* sqrtf, rounded down
Isqrt(n) == IsqrtIn(n, 0, 46340)

\* ---- DITHER_BAYER4, dither_pixel ---------------------------------------
DITHER_BAYER4 ==
    << <<0, 8, 2, 10>>, <<12, 4, 14, 6>>, <<3, 11, 1, 9>>, <<15, 7, 13, 5>> >>

\* n & 3 of a two's complement int: the two low bits, which for a negative
\* n = -m are those of 2^32 - m
And3(n) == IF n >= 0 THEN n % 4 ELSE (4 - ((0 - n) % 4)) % 4

dither_pixel_ge(x, y, brightness) ==
    IF brightness <= 0 THEN FALSE
    ELSE IF brightness >= BrightUnit THEN TRUE
    ELSE brightness * 16 >= DITHER_BAYER4[And3(y) + 1][And3(x) + 1] * BrightUnit

\* lines 63-69; brightness in 1/BrightUnit
dither_pixel(x, y, brightness) ==
    IF brightness <= 0 THEN FALSE
    ELSE IF brightness >= BrightUnit THEN TRUE
    ELSE brightness * 16 > DITHER_BAYER4[And3(y) + 1][And3(x) + 1] * BrightUnit

dither_pixel_in_ge(x, y, brightness, unit) ==
    IF brightness <= 0 THEN FALSE
    ELSE IF brightness >= unit THEN TRUE
    ELSE brightness * 16 >= DITHER_BAYER4[And3(y) + 1][And3(x) + 1] * unit

\* lines 63-69 for the brightness brightness / unit
dither_pixel_in(x, y, brightness, unit) ==
    IF brightness <= 0 THEN FALSE
    ELSE IF brightness >= unit THEN TRUE
    ELSE brightness * 16 > DITHER_BAYER4[And3(y) + 1][And3(x) + 1] * unit

\* ---- ssd1306.c ----------------------------------------------------------
BitIsSet(byte, bit) == (byte \div (2^bit)) % 2 = 1

\* memset(frame_buffer, 0, sizeof(frame_buffer))
ssd1306_clear(fb) == [k \in DOMAIN fb |-> 0]

ssd1306_set_pixel_byte(fb, x, y, on) ==
    IF x < 0 \/ x >= SSD1306_WIDTH \/ y < 0 \/ y >= SSD1306_HEIGHT THEN fb
    ELSE [fb EXCEPT ![(y \div 8) * SSD1306_WIDTH + x] = IF on THEN 2^(y % 8) ELSE 0]

\* lines 134-150
ssd1306_set_pixel(fb, x, y, on) ==
    IF x < 0 \/ x >= SSD1306_WIDTH \/ y < 0 \/ y >= SSD1306_HEIGHT THEN fb
    ELSE LET page == y \div 8
             bit == y % 8
             idx == page * SSD1306_WIDTH + x
         IN  IF on
             THEN [fb EXCEPT ![idx] = IF BitIsSet(@, bit) THEN @ ELSE @ + 2^bit]
             ELSE [fb EXCEPT ![idx] = IF BitIsSet(@, bit) THEN @ - 2^bit ELSE @]

ssd1306_get_pixel(fb, x, y) ==
    IF x < 0 \/ x >= SSD1306_WIDTH \/ y < 0 \/ y >= SSD1306_HEIGHT THEN FALSE
    ELSE BitIsSet(fb[(y \div 8) * SSD1306_WIDTH + x], y % 8)

\* ---- vectors -----------------------------------------------------------
vec3_sub(a, b) == <<a[1] - b[1], a[2] - b[2], a[3] - b[3]>>

vec3_cross(a, b) ==
    <<a[2] * b[3] - a[3] * b[2], a[3] * b[1] - a[1] * b[3],
      a[1] * b[2] - a[2] * b[1]>>

\* a.x * b.x + a.y * b.y + a.z * b.z
Dot(a, b) == a[1] * b[1] + a[2] * b[2] + a[3] * b[3]

\* vec3_length(v) < 0.0001f, the coordinates of v being in units of 10^-exp
TooShort(v, exp) ==
    IF 2 * exp >= 8 THEN Dot(v, v) < Pow10(2 * exp - 8) ELSE Dot(v, v) = 0

\* vec3_normalize: the unit vector v / len, or the zero vector
vec3_normalize(v, exp) ==
    IF TooShort(v, exp) THEN [v |-> <<0, 0, 0>>, len |-> 1, zero |-> TRUE]
    ELSE [v |-> v, len |-> Isqrt(Dot(v, v)), zero |-> FALSE]

\* vec3_dot of two vectors vec3_normalize returned, in 1/BrightUnit
vec3_dot(a, b) ==
    IF a.zero \/ b.zero THEN 0
    ELSE FloorDiv(Dot(a.v, b.v) * BrightUnit, a.len * b.len)

calculate_face_normal(v0, v1, v2, exp) ==
    vec3_normalize(vec3_cross(vec3_sub(v1, v0), vec3_sub(v2, v0)), 2 * exp)

\* ---- projection --------------------------------------------------------
\* 1 / tanf(DEG_TO_RAD(fov_deg) / 2), in thousandths
CotHalf(fov_deg) == CASE fov_deg = 90 -> 1000 [] fov_deg = 60 -> 1732

\* a mat4_t that memset left zero, as a projection and as a view matrix
ZeroProj == [m00 |-> 0, m11 |-> 0, m22n |-> 0, m23n |-> 0, den |-> 1, m32 |-> 0]
ZeroView ==
    [rot |-> << <<0, 0, 0>>, <<0, 0, 0>>, <<0, 0, 0>> >>, trans |-> <<0, 0, 0>>,
     m33 |-> 0]

\* mat4_perspective, near and far in tenths: m[0][0] and m[1][1] in
\* thousandths, m[2][2] = m22n / den, m[2][3] = m23n / (10 * den), m[3][2]
mat4_perspective(fov_deg, width, height, near, far) ==
    [m00 |-> FloorDiv(CotHalf(fov_deg) * height, width),
     m11 |-> CotHalf(fov_deg),
     m22n |-> 0 - (far + near),
     m23n |-> 0 - 2 * far * near,
     den |-> far - near,
     m32 |-> 0 - 1]

\* mat4_look_at, the vectors in tenths: the rows r, u, -f in thousandths, the
\* last column in tenths, m[3][3]
mat4_look_at(eye, target, up) ==
    LET f == vec3_normalize(vec3_sub(target, eye), 1)
        r == vec3_normalize(vec3_cross(f.v, up), 2)
        u == vec3_cross(r.v, f.v)
    IN  [rot |-> << [k \in 1..3 |-> FloorDiv(r.v[k] * 1000, r.len)],
                    [k \in 1..3 |-> FloorDiv(u[k] * 1000, r.len * f.len)],
                    [k \in 1..3 |-> FloorDiv((0 - f.v[k]) * 1000, f.len)] >>,
         trans |-> <<FloorDiv(0 - Dot(r.v, eye), r.len),
                     FloorDiv(0 - Dot(u, eye), r.len * f.len),
                     FloorDiv(Dot(f.v, eye), f.len)>>,
         m33 |-> 1]

\* ctx->view_matrix applied to the point pt (model matrix: identity), in the
\* unit 10^-exp of pt; w is the fourth coordinate
ViewPoint(pt, exp) ==
    [v |-> [k \in 1..3 |-> FloorDiv(Dot(view_matrix.rot[k], pt), 1000)
                              + view_matrix.trans[k] * Pow10(exp - 1)],
     w |-> view_matrix.m33]

\* ctx->proj_matrix and mat4_transform_point: clip.z of a point at view-space
\* z with fourth coordinate w (the divisor is -z, set to 0.0001 when its
\* magnitude is below 0.0001), in 1/DepthUnit; under the zero matrix 0 / 0.0001
ClipZ(z, w, exp) ==
    IF proj_matrix.m32 = 0 THEN 0
    ELSE IF z = 0
    THEN FloorDiv(proj_matrix.m23n * w * 1000 * DepthUnit, proj_matrix.den)
    ELSE FloorDiv(((0 - proj_matrix.m22n) * z
                     + (0 - proj_matrix.m23n) * w * Pow10(exp - 1)) * DepthUnit,
                  proj_matrix.den * z)

\* c / w for a coordinate c of a point at view-space z, times scale
OverW(c, z, exp, scale) ==
    IF z = 0 THEN c * Pow10(4 - exp) * scale
    ELSE FloorDiv(c * scale, 0 - z)

\* project_point: screen x and y in 1/SubPixel pixels, depth in 1/DepthUnit
project_point(pt, exp) ==
    [x |-> (CtxWidth * SubPixel) \div 2
             + FloorDiv(OverW(ViewPoint(pt, exp).v[1], ViewPoint(pt, exp).v[3], exp,
                              (proj_matrix.m00 * CtxWidth * SubPixel) \div 1000), 2),
     y |-> (CtxHeight * SubPixel) \div 2
             - FloorDiv(OverW(ViewPoint(pt, exp).v[2], ViewPoint(pt, exp).v[3], exp,
                              (proj_matrix.m11 * CtxHeight * SubPixel) \div 1000), 2),
     z |-> ClipZ(ViewPoint(pt, exp).v[3], ViewPoint(pt, exp).w, exp)]

\* ---- draw_scanline, draw_triangle_flat ---------------------------------
PlotOrEqual(R, x, y, z, brightness) ==
    LET idx == y * CtxWidth + x
        on == dither_pixel(x, y, brightness)
        logged == IF idx \in DOMAIN R.frags
                  THEN [R.frags EXCEPT ![idx] = Append(@, [z |-> z, on |-> on])]
                  ELSE R.frags
    IN  IF idx \notin DOMAIN R.zbuffer THEN [R EXCEPT !.outside = @ + 1]
        ELSE IF z <= R.zbuffer[idx]
        THEN [R EXCEPT !.zbuffer = [@ EXCEPT ![idx] = z],
                       !.frame_buffer = ssd1306_set_pixel(@, x, y, on),
                       !.frags = logged, !.made = @ + 1, !.writes = @ + 1]
        ELSE [R EXCEPT !.frags = logged, !.made = @ + 1]

\* the test of line 405 and the stores it guards; every fragment is logged,
\* and an index outside the depth buffer is counted instead of dereferenced
Plot(R, x, y, z, brightness) ==
    LET idx == y * CtxWidth + x
        on == dither_pixel(x, y, brightness)
        logged == IF idx \in DOMAIN R.frags
                  THEN [R.frags EXCEPT ![idx] = Append(@, [z |-> z, on |-> on])]
                  ELSE R.frags
    IN  IF idx \notin DOMAIN R.zbuffer THEN [R EXCEPT !.outside = @ + 1]
        ELSE IF z < R.zbuffer[idx]
        THEN [R EXCEPT !.zbuffer = [@ EXCEPT ![idx] = z],
                       !.frame_buffer = ssd1306_set_pixel(@, x, y, on),
                       !.frags = logged, !.made = @ + 1, !.writes = @ + 1]
        ELSE [R EXCEPT !.frags = logged, !.made = @ + 1]

RECURSIVE ScanPixels(_, _, _, _, _, _, _)
\* lines 401-421: for (x = ix1; x <= ix2; x++)
ScanPixels(R, y, x, ix2, z, dz, brightness) ==
    IF x > ix2 THEN R
    ELSE CHOOSE out \in {ScanPixels(r, y, x + 1, ix2, z + dz, dz, brightness) :
                            r \in {Plot(R, x, y, z, brightness)}} : TRUE

\* (int)x of a coordinate in 1/SubPixel pixels
ToInt(c) == IF c >= 0 THEN c \div SubPixel ELSE 0 - ((0 - c) \div SubPixel)

\* draw_scanline without the clamp of the right end of the span
draw_scanline_unclamped(R, y, xa, xb, za, zb, brightness) ==
    IF y < 0 \/ y >= CtxHeight THEN R
    ELSE LET x1 == IF xa > xb THEN xb ELSE xa
             x2 == IF xa > xb THEN xa ELSE xb
             z1 == IF xa > xb THEN zb ELSE za
             z2 == IF xa > xb THEN za ELSE zb
             ix1 == ToInt(x1)
             ix2 == ToInt(x2)
             dx == x2 - x1
             dz == IF dx > 0 THEN FloorDiv((z2 - z1) * SubPixel, dx) ELSE 0
         IN  IF ix2 < 0 \/ ix1 >= CtxWidth THEN R
             ELSE ScanPixels(R, y, IF ix1 < 0 THEN 0 ELSE ix1, ix2,
                             IF ix1 < 0 THEN z1 + FloorDiv(dz * (0 - x1), SubPixel)
                             ELSE z1,
                             dz, brightness)

\* lines 370-422
draw_scanline(R, y, xa, xb, za, zb, brightness) ==
    IF y < 0 \/ y >= CtxHeight THEN R
    ELSE LET x1 == IF xa > xb THEN xb ELSE xa
             x2 == IF xa > xb THEN xa ELSE xb
             z1 == IF xa > xb THEN zb ELSE za
             z2 == IF xa > xb THEN za ELSE zb
             ix1 == ToInt(x1)
             ix2 == ToInt(x2)
             dx == x2 - x1
             dz == IF dx > 0 THEN FloorDiv((z2 - z1) * SubPixel, dx) ELSE 0
         IN  IF ix2 < 0 \/ ix1 >= CtxWidth THEN R
             ELSE ScanPixels(R, y, IF ix1 < 0 THEN 0 ELSE ix1,
                             IF ix2 >= CtxWidth THEN CtxWidth - 1 ELSE ix2,
                             IF ix1 < 0 THEN z1 + FloorDiv(dz * (0 - x1), SubPixel)
                             ELSE z1,
                             dz, brightness)

\* a + (b - a) * t with t = (num > 0.001 ? 1 / den : 0) * num
Lerp(a, b, num, den) == IF den > 0 THEN a + FloorDiv((b - a) * num, den) ELSE a

RECURSIVE ScanRows(_, _, _, _, _, _, _)
\* lines 455-479: for (y = iy0; y <= iy2; y++), p0.y <= p1.y <= p2.y
ScanRows(R, y, iy2, p0, p1, p2, brightness) ==
    IF y > iy2 THEN R
    ELSE LET fy == y * SubPixel + SubPixel \div 2
             x_long == Lerp(p0.x, p2.x, fy - p0.y, p2.y - p0.y)
             z_long == Lerp(p0.z, p2.z, fy - p0.y, p2.y - p0.y)
             upper == fy < p1.y
             x_short == IF upper THEN Lerp(p0.x, p1.x, fy - p0.y, p1.y - p0.y)
                        ELSE Lerp(p1.x, p2.x, fy - p1.y, p2.y - p1.y)
             z_short == IF upper THEN Lerp(p0.z, p1.z, fy - p0.y, p1.y - p0.y)
                        ELSE Lerp(p1.z, p2.z, fy - p1.y, p2.y - p1.y)
         IN  CHOOSE out \in {ScanRows(r, y + 1, iy2, p0, p1, p2, brightness) :
                                r \in {draw_scanline(R, y, x_long, x_short, z_long,
                                                     z_short, brightness)}} : TRUE

\* lines 429-431: the three conditional swaps
SortByY(a, b, c) ==
    LET s1 == IF a.y > b.y THEN <<b, a, c>> ELSE <<a, b, c>>
        s2 == IF s1[1].y > s1[3].y THEN <<s1[3], s1[2], s1[1]>> ELSE s1
    IN  IF s2[2].y > s2[3].y THEN <<s2[1], s2[3], s2[2]>> ELSE s2

draw_triangle_flat(R, a, b, c, brightness) ==
    LET pts == SortByY(a, b, c)
        iy0 == CeilDiv(pts[1].y, SubPixel)
        iy2 == FloorDiv(pts[3].y, SubPixel)
    IN  IF iy2 < 0 \/ iy0 >= CtxHeight \/ iy0 > iy2 THEN R
        ELSE ScanRows(R, IF iy0 < 0 THEN 0 ELSE iy0,
                      IF iy2 >= CtxHeight THEN CtxHeight - 1 ELSE iy2,
                      pts[1], pts[2], pts[3], brightness)

\* ---- render3d_draw_mesh ------------------------------------------------
\* ctx->camera.position in the unit 10^-exp
CameraPosition(exp) == [k \in 1..3 |-> camera.position[k] * Pow10(exp - 1)]

\* lines 519-522
Brightness(normal, l) ==
    LET d == 0 - vec3_dot(normal, l.direction)
        diffuse == IF d < 0 THEN 0 ELSE d
        b == l.ambient + FloorDiv(diffuse * l.intensity, BrightUnit)
    IN  IF b > BrightUnit THEN BrightUnit ELSE b

CulledFront(normal, view_dir) == vec3_dot(normal, view_dir) > 0

\* line 516: the face looks away from the camera
Culled(normal, view_dir) == vec3_dot(normal, view_dir) < 0

\* line 530
NearClipped(a, b, c) == a.z < 0 \/ b.z < 0 \/ c.z < 0

\* lines 504-533: one turn of the face loop
DrawFace(R, m, l, i) ==
    LET v0 == m.vertices[m.faces[i].v[1]]
        v1 == m.vertices[m.faces[i].v[2]]
        v2 == m.vertices[m.faces[i].v[3]]
        normal == calculate_face_normal(v0, v1, v2, m.exp)
        view_dir == vec3_normalize(vec3_sub(CameraPosition(m.exp), v0), m.exp)
        a == project_point(v0, m.exp)
        b == project_point(v1, m.exp)
        c == project_point(v2, m.exp)
    IN  IF Culled(normal, view_dir) THEN R
        ELSE IF NearClipped(a, b, c) THEN R
        ELSE [draw_triangle_flat(R, a, b, c, Brightness(normal, l))
                 EXCEPT !.shades = Append(@, Brightness(normal, l))]

RECURSIVE DrawFaces(_, _, _, _)
\* for (i = 0; i < mesh->face_count; i++)
DrawFaces(R, m, l, i) ==
    IF i >= m.face_count THEN R
    ELSE CHOOSE out \in {DrawFaces(r, m, l, i + 1) : r \in {DrawFace(R, m, l, i)}} :
             TRUE

\* ---- render3d_draw_line, render3d_draw_mesh_wireframe --------------------
RECURSIVE LineFrom(_, _, _, _, _, _, _)
\* lines 79-95: the loop, from (x0, y0) with the error term err; d is
\* [dx, dy, sx, sy] of lines 73-76
LineFrom(R, x0, y0, x1, y1, d, err) ==
    LET inside == x0 >= 0 /\ x0 < SSD1306_WIDTH /\ y0 >= 0 /\ y0 < SSD1306_HEIGHT
        lit == IF inside
               THEN [R EXCEPT !.frame_buffer = ssd1306_set_pixel(@, x0, y0, TRUE),
                              !.writes = @ + 1,
                              !.path = Append(@, <<x0, y0>>)]
               ELSE [R EXCEPT !.path = Append(@, <<x0, y0>>)]
        stepx == 2 * err > 0 - d.dy
        stepy == 2 * err < d.dx
    IN  IF x0 = x1 /\ y0 = y1 THEN lit
        ELSE CHOOSE out \in
                 {LineFrom(r, n[1], n[2], x1, y1, d, n[3]) :
                     r \in {lit},
                     n \in {<<IF stepx THEN x0 + d.sx ELSE x0,
                              IF stepy THEN y0 + d.sy ELSE y0,
                              err - (IF stepx THEN d.dy ELSE 0)
                                  + (IF stepy THEN d.dx ELSE 0)>>}} : TRUE

\* the line between the endpoints moved onto the display
render3d_draw_line_clamped(R, x0, y0, x1, y1) ==
    LET cx0 == IF x0 < 0 THEN 0 ELSE IF x0 >= SSD1306_WIDTH THEN SSD1306_WIDTH - 1 ELSE x0
        cy0 == IF y0 < 0 THEN 0 ELSE IF y0 >= SSD1306_HEIGHT THEN SSD1306_HEIGHT - 1 ELSE y0
        cx1 == IF x1 < 0 THEN 0 ELSE IF x1 >= SSD1306_WIDTH THEN SSD1306_WIDTH - 1 ELSE x1
        cy1 == IF y1 < 0 THEN 0 ELSE IF y1 >= SSD1306_HEIGHT THEN SSD1306_HEIGHT - 1 ELSE y1
        dx == IF cx1 >= cx0 THEN cx1 - cx0 ELSE cx0 - cx1
        dy == IF cy1 >= cy0 THEN cy1 - cy0 ELSE cy0 - cy1
    IN  LineFrom(R, cx0, cy0, cx1, cy1,
                 [dx |-> dx, dy |-> dy, sx |-> IF cx0 < cx1 THEN 1 ELSE 0 - 1,
                  sy |-> IF cy0 < cy1 THEN 1 ELSE 0 - 1],
                 dx - dy)

\* lines 72-96, on = true
render3d_draw_line(R, x0, y0, x1, y1) ==
    LET dx == IF x1 >= x0 THEN x1 - x0 ELSE x0 - x1
        dy == IF y1 >= y0 THEN y1 - y0 ELSE y0 - y1
    IN  LineFrom(R, x0, y0, x1, y1,
                 [dx |-> dx, dy |-> dy, sx |-> IF x0 < x1 THEN 1 ELSE 0 - 1,
                  sy |-> IF y0 < y1 THEN 1 ELSE 0 - 1],
                 dx - dy)

\* a wireframe turn that fills the triangle through the depth test
WireFaceFilled(R, m, i) == DrawFace(R, m, light, i)

\* lines 551-566: one turn of the face loop
WireFace(R, m, i) ==
    LET a == project_point(m.vertices[m.faces[i].v[1]], m.exp)
        b == project_point(m.vertices[m.faces[i].v[2]], m.exp)
        c == project_point(m.vertices[m.faces[i].v[3]], m.exp)
    IN  IF NearClipped(a, b, c) THEN R
        ELSE render3d_draw_line(
                 render3d_draw_line(
                     render3d_draw_line(R, ToInt(a.x), ToInt(a.y), ToInt(b.x),
                                        ToInt(b.y)),
                     ToInt(b.x), ToInt(b.y), ToInt(c.x), ToInt(c.y)),
                 ToInt(c.x), ToInt(c.y), ToInt(a.x), ToInt(a.y))

RECURSIVE WireFaces(_, _, _)
\* for (i = 0; i < mesh->face_count; i++)
WireFaces(R, m, i) ==
    IF i >= m.face_count THEN R
    ELSE CHOOSE out \in {WireFaces(r, m, i + 1) : r \in {WireFace(R, m, i)}} : TRUE

\* ---- the meshes drawn and the lights set ---------------------------------
White == <<255, 255, 255>>

\* the mesh of the given vertices and triangles, coordinates in 10^-exp
Scene(verts, tris, exp) ==
    [exp |-> exp] @@
    Finished(SetFaces(SetVertices(mesh_create(Len(verts), Len(tris), TRUE), 0, verts),
                      0, [k \in 1..Len(tris) |-> [v |-> tris[k], color |-> White]]),
             Len(verts), Len(tris))

\* the meshes handed to render3d_draw_mesh
Scenes ==
    {\* facing the camera, 0.3 and 0.4 in front of it
     Scene(<< <<-2, -2, -3>>, <<2, -2, -3>>, <<0, 2, -3>> >>, << <<0, 1, 2>> >>, 1),
     Scene(<< <<-3, -3, -4>>, <<3, -3, -4>>, <<0, 3, -4>> >>, << <<0, 1, 2>> >>, 1),
     \* the far one with its winding reversed
     Scene(<< <<-3, -3, -4>>, <<3, -3, -4>>, <<0, 3, -4>> >>, << <<0, 2, 1>> >>, 1),
     \* tilted: the top vertex nearer than the base
     Scene(<< <<-3, -3, -5>>, <<3, -3, -5>>, <<0, 2, -2>> >>, << <<0, 1, 2>> >>, 1),
     \* behind the camera by 0.0001 and 0.0002
     Scene(<< <<-1, -1, 1>>, <<1, -1, 1>>, <<0, 1, 1>> >>, << <<0, 1, 2>> >>, 4),
     Scene(<< <<-2, -2, 2>>, <<2, -2, 2>>, <<0, 2, 2>> >>, << <<0, 1, 2>> >>, 4),
     \* no mesh
     NULL}

\* the meshes at the edges of the culling and near-plane tests
EdgeScenes ==
    {\* facing the camera, 2.0 in front of it
     Scene(<< <<-10, -10, -20>>, <<10, -10, -20>>, <<0, 10, -20>> >>,
           << <<0, 1, 2>> >>, 1),
     \* 1.5 in front of it: depth 0 between the planes 1.0 and 3.0
     Scene(<< <<-10, -10, -15>>, <<10, -10, -15>>, <<0, 10, -15>> >>,
           << <<0, 1, 2>> >>, 1),
     \* 0.1 in front of it: nearer than either near-plane test admits
     Scene(<< <<-1, -1, -1>>, <<1, -1, -1>>, <<0, 1, -1>> >>, << <<0, 1, 2>> >>, 1),
     \* 0.5 behind the camera, wound to face it
     Scene(<< <<-2, -2, 5>>, <<2, -2, 5>>, <<0, 2, 5>> >>, << <<0, 2, 1>> >>, 1),
     \* one vertex 0.5 behind the camera, two 2.0 in front of it
     Scene(<< <<-10, -10, -20>>, <<10, -10, -20>>, <<0, 2, 5>> >>,
           << <<0, 1, 2>> >>, 1),
     \* zero area: three points of one line
     Scene(<< <<-10, -10, -20>>, <<0, 0, -20>>, <<10, 10, -20>> >>,
           << <<0, 1, 2>> >>, 1),
     \* edge-on: in the plane x = 0, which holds the camera
     Scene(<< <<0, -10, -20>>, <<0, 10, -20>>, <<0, 0, -10>> >>,
           << <<0, 1, 2>> >>, 1),
     \* a mesh without faces
     Scene(<< <<0, 0, -3>> >>, <<>>, 1)}

\* the camera render3d_init sets (lines 304-309)
InitCamera ==
    [position |-> <<0, 0, 50>>, target |-> <<0, 0, 0>>, up |-> <<0, 10, 0>>,
     fov |-> 60, near |-> NearTenths, far |-> FarTenths]

\* a camera at the origin looking down -z, fov 90, the planes of render3d_init
DefaultCamera ==
    [position |-> <<0, 0, 0>>, target |-> <<0, 0, -10>>, up |-> <<0, 10, 0>>,
     fov |-> 90, near |-> NearTenths, far |-> FarTenths]

\* the cameras handed to render3d_set_camera: that one, and the same with
\* the planes 1.0 and 3.0
Cameras == {DefaultCamera, [DefaultCamera EXCEPT !.near = 10, !.far = 30]}

\* lines 341-343: the matrices render3d_set_camera caches for camera c
ViewOf(c) == mat4_look_at(c.position, c.target, c.up)
ProjOf(c) == mat4_perspective(c.fov, CtxWidth, CtxHeight, c.near, c.far)

\* the light render3d_init sets (lines 312-314)
DefaultLight ==
    [direction |-> vec3_normalize(<<-5, -10, -7>>, 1), intensity |-> 1000,
     ambient |-> 200]

\* the lights handed to render3d_set_light: [direction, intensity, ambient]
Lights ==
    {[direction |-> <<0, 0, -1>>, intensity |-> 500, ambient |-> 250],
     [direction |-> <<0, 0, 0>>, intensity |-> 0, ambient |-> 1000]}

RndFrame == UNCHANGED <<objvars, bldvars, memvars, pixvars, appvars>>

\* the context as a record, for the drawing operators; made counts the
\* fragments of the call, writes its stores and outside its depth-buffer
\* indices beyond the buffer; shades lists the brightness handed to
\* draw_triangle_flat, path the positions render3d_draw_line visited
Raster ==
    [zbuffer |-> zbuffer, frame_buffer |-> frame_buffer, frags |-> frags,
     made |-> 0, writes |-> 0, outside |-> 0, shades |-> <<>>, path |-> <<>>]

ClearDepthFirstRow(zb, w, h) ==
    [k \in DOMAIN zb |-> IF k < w THEN ZClear ELSE zb[k]]

\* lines 328-330: for (i = 0; i < width * height; i++) zbuffer[i] = 1000.0f
ClearDepth(zb, w, h) ==
    [k \in DOMAIN zb |-> IF k < w * h THEN ZClear ELSE zb[k]]

render3d_clear ==
    /\ zbuffer' = ClearDepth(zbuffer, CtxWidth, CtxHeight)
    /\ frame_buffer' = ssd1306_clear(frame_buffer)
    /\ frags' = [k \in DOMAIN zbuffer |-> <<>>]
    /\ draws' = 0
    /\ last_op' = "clear"
    /\ before' = [depth |-> \E k \in DOMAIN zbuffer : zbuffer[k] < ZClear,
                  lit |-> \E k \in DOMAIN frame_buffer : frame_buffer[k] # 0]
    /\ UNCHANGED <<light, camvars, drawn>>
    /\ RndFrame

\* lines 346-349
SetLight(l) ==
    /\ light' = [l EXCEPT !.direction = vec3_normalize(l.direction, 0)]
    /\ last_op' = "set_light"
    /\ UNCHANGED <<zbuffer, frame_buffer, frags, draws, before, camvars, drawn>>
    /\ RndFrame

render3d_set_light == \E l \in Lights : SetLight(l)

\* lights whose ambient and intensity leave [0, 1]: ambient -0.25, intensity
\* -0.5, intensity 2.0 over ambient 0.5, and one inside the range
EdgeLights ==
    {[direction |-> <<0, 0, -1>>, intensity |-> 500, ambient |-> 0 - 250],
     [direction |-> <<0, 0, -1>>, intensity |-> 0 - 500, ambient |-> 100],
     [direction |-> <<0, 0, -1>>, intensity |-> 2000, ambient |-> 500],
     [direction |-> <<0, 0, -1>>, intensity |-> 500, ambient |-> 250]}

render3d_set_light_edge == \E l \in EdgeLights : SetLight(l)

\* a draw call on mesh m that leaves the context as R
Drawn(m, mode, R) ==
    /\ zbuffer' = R.zbuffer
    /\ frame_buffer' = R.frame_buffer
    /\ frags' = R.frags
    /\ draws' = draws + 1
    /\ last_op' = mode
    /\ drawn' = [mesh |-> m, made |-> R.made, writes |-> R.writes,
                 outside |-> R.outside, shades |-> R.shades]
    /\ UNCHANGED <<light, before, camvars>>
    /\ RndFrame

\* lines 482-535
DrawMesh(m) ==
    /\ draws < MaxDraws
    /\ \E R \in {IF m = NULL THEN Raster
                 ELSE IF m.face_count = 0 THEN Raster
                 ELSE DrawFaces(Raster, m, light, 0)} : Drawn(m, "draw_mesh", R)

\* lines 537-568
DrawMeshWireframe(m) ==
    /\ draws < MaxDraws
    /\ \E R \in {IF m = NULL THEN Raster
                 ELSE IF m.face_count = 0 THEN Raster
                 ELSE WireFaces(Raster, m, 0)} :
          Drawn(m, "draw_mesh_wireframe", R)

render3d_draw_mesh == \E m \in Scenes : DrawMesh(m)

render3d_draw_mesh_edge == \E m \in EdgeScenes : DrawMesh(m)

render3d_draw_mesh_wireframe == \E m \in EdgeScenes : DrawMeshWireframe(m)

\* triangles 1.0 in front of the camera that leave the 16 x 16 screen
WideScenes ==
    {\* over every edge of the screen
     Scene(<< <<-30, -30, -10>>, <<30, -30, -10>>, <<0, 30, -10>> >>,
           << <<0, 1, 2>> >>, 1),
     \* over the left edge only, and over the right edge only
     Scene(<< <<-30, -5, -10>>, <<5, -5, -10>>, <<0, 5, -10>> >>, << <<0, 1, 2>> >>, 1),
     Scene(<< <<-5, -5, -10>>, <<30, -5, -10>>, <<0, 5, -10>> >>, << <<0, 1, 2>> >>, 1),
     \* over the top edge only, and over the bottom edge only
     Scene(<< <<-5, -5, -10>>, <<5, -5, -10>>, <<0, 30, -10>> >>, << <<0, 1, 2>> >>, 1),
     Scene(<< <<-5, -30, -10>>, <<5, -30, -10>>, <<0, 5, -10>> >>, << <<0, 1, 2>> >>, 1),
     \* wholly left of the screen, wholly right of it, above it and below it
     Scene(<< <<-50, -5, -10>>, <<-30, -5, -10>>, <<-40, 5, -10>> >>,
           << <<0, 1, 2>> >>, 1),
     Scene(<< <<30, -5, -10>>, <<50, -5, -10>>, <<40, 5, -10>> >>, << <<0, 1, 2>> >>, 1),
     Scene(<< <<-5, 30, -10>>, <<5, 30, -10>>, <<0, 50, -10>> >>, << <<0, 1, 2>> >>, 1),
     Scene(<< <<-5, -50, -10>>, <<5, -50, -10>>, <<0, -30, -10>> >>,
           << <<0, 1, 2>> >>, 1),
     \* left of the screen in its upper rows, on it in its lower rows
     Scene(<< <<-30, 5, -10>>, <<5, -8, -10>>, <<-20, 8, -10>> >>, << <<0, 1, 2>> >>, 1),
     \* within the screen
     Scene(<< <<-5, -5, -10>>, <<5, -5, -10>>, <<0, 5, -10>> >>, << <<0, 1, 2>> >>, 1)}

render3d_draw_mesh_wide == \E m \in WideScenes : DrawMesh(m)

\* what malloc may have left in the depth buffer
Garbage ==
    {[k \in 0..(CtxWidth * CtxHeight - 1) |-> 0],
     [k \in 0..(CtxWidth * CtxHeight - 1) |-> ZClear + ((k * 7) % 5) * DepthUnit],
     [k \in 0..(CtxWidth * CtxHeight - 1) |-> (k * 37) % (2 * ZClear)]}

\* render3d_init(ctx, CtxWidth, CtxHeight) has returned true and
\* render3d_set_camera has placed the camera: position (0, 0, 0), target
\* (0, 0, -1), up (0, 1, 0), fov 90, near_plane 0.1, far_plane 100
InitRender ==
    /\ ObjIdle
    /\ BldIdle
    /\ zbuffer \in Garbage
    /\ light = DefaultLight
    /\ frame_buffer = ZeroFrame
    /\ frags = <<>>
    /\ draws = 0
    /\ last_op = "init"
    /\ before = [depth |-> FALSE, lit |-> FALSE]
    /\ camera = DefaultCamera
    /\ view_matrix = ViewOf(camera)
    /\ proj_matrix = ProjOf(camera)
    /\ drawn = NULL
    /\ MemIdle
    /\ PixIdle /\ AppOff

NextRender ==
    \/ render3d_clear
    \/ render3d_set_light
    \/ render3d_draw_mesh

SpecRender == InitRender /\ [][NextRender]_vars

\* as InitRender, with either pair of planes handed to render3d_set_camera
InitView ==
    /\ ObjIdle
    /\ BldIdle
    /\ zbuffer \in Garbage
    /\ light = DefaultLight
    /\ frame_buffer = ZeroFrame
    /\ frags = <<>>
    /\ draws = 0
    /\ last_op = "init"
    /\ before = [depth |-> FALSE, lit |-> FALSE]
    /\ camera \in Cameras
    /\ view_matrix = ViewOf(camera)
    /\ proj_matrix = ProjOf(camera)
    /\ drawn = NULL
    /\ MemIdle
    /\ PixIdle /\ AppOff

NextView ==
    \/ render3d_clear
    \/ render3d_draw_mesh_edge
    \/ render3d_draw_mesh_wireframe

SpecView == InitView /\ [][NextView]_vars

\* lines 339-344
SetCamera(c) ==
    /\ camera' = c
    /\ view_matrix' = mat4_look_at(c.position, c.target, c.up)
    /\ proj_matrix' = mat4_perspective(c.fov, CtxWidth, CtxHeight, c.near, c.far)
    /\ last_op' = "set_camera"
    /\ UNCHANGED <<zbuffer, light, frame_buffer, frags, draws, before, drawn>>
    /\ RndFrame

render3d_set_camera == \E c \in Cameras : SetCamera(c)

\* lines 570-577: ssd1306_update sends the frame buffer to the display
render3d_present ==
    /\ last_op # "present"
    /\ last_op' = "present"
    /\ UNCHANGED <<zbuffer, light, frame_buffer, frags, draws, before, camvars, drawn>>
    /\ RndFrame

\* render3d_init(ctx, CtxWidth, CtxHeight) has returned true (lines 283-317):
\* memset zeroed the context, the camera and the light are the default ones
InitCtx ==
    /\ ObjIdle
    /\ BldIdle
    /\ zbuffer \in Garbage
    /\ light = DefaultLight
    /\ frame_buffer = ZeroFrame
    /\ frags = <<>>
    /\ draws = 0
    /\ last_op = "init"
    /\ before = [depth |-> FALSE, lit |-> FALSE]
    /\ camera = InitCamera
    /\ view_matrix = ZeroView
    /\ proj_matrix = ZeroProj
    /\ drawn = NULL
    /\ MemIdle
    /\ PixIdle /\ AppOff

NextCamera ==
    \/ render3d_set_camera
    \/ render3d_set_light
    \/ render3d_clear
    \/ render3d_draw_mesh
    \/ render3d_present

SpecCamera == InitCtx /\ [][NextCamera]_vars

\* render3d_clear and render3d_draw_mesh of triangles that leave the screen
NextClip ==
    \/ render3d_clear
    \/ render3d_draw_mesh_wide

SpecClip == InitRender /\ [][NextClip]_vars

\* render3d_set_light with any parameters, then render3d_draw_mesh
NextLight ==
    \/ render3d_set_light_edge
    \/ render3d_draw_mesh

SpecLight == InitRender /\ [][NextLight]_vars

(***************************************************************************)
(* The allocator under mesh_create, mesh_free, render3d_init and           *)
(* render3d_free.  A pointer is the index of its block in memory, 0 is     *)
(* NULL; a block counts how often free was called on it.  Which mallocs    *)
(* of a call return NULL is an input of the call.                          *)
(***************************************************************************)
MaxMemCalls == 3      \* calls in sequence on the one context

\* malloc(cells * sizeof(...)): [memory, ptr]
Malloc(mem, what, cells, fails) ==
    IF fails THEN [memory |-> mem, ptr |-> 0]
    ELSE [memory |-> Append(mem, [what |-> what, cells |-> cells, frees |-> 0,
                                  fields |-> NULL]),
          ptr |-> Len(mem) + 1]

\* free(ptr)
Free(mem, ptr) == [mem EXCEPT ![ptr].frees = @ + 1]

\* if (ptr) free(ptr)
FreeIfSet(mem, ptr) == IF ptr # 0 THEN Free(mem, ptr) ELSE mem

mesh_free_arrays(mem, m) ==
    IF m = 0 THEN mem
    ELSE FreeIfSet(FreeIfSet(FreeIfSet(mem, mem[m].fields.vertices),
                             mem[m].fields.normals),
                   mem[m].fields.faces)

\* lines 603-609
mesh_free(mem, m) ==
    IF m = 0 THEN mem
    ELSE Free(FreeIfSet(FreeIfSet(FreeIfSet(mem, mem[m].fields.vertices),
                                  mem[m].fields.normals),
                        mem[m].fields.faces),
              m)

\* lines 583-601, the allocations: [memory, ret]
mesh_create_mem(mem, max_verts, max_faces, fail) ==
    LET s == Malloc(mem, "mesh", 1, fail.mesh)
        v == Malloc(s.memory, "vertices", max_verts, fail.vertices)
        n == Malloc(v.memory, "normals", max_verts, fail.normals)
        f == Malloc(n.memory, "faces", max_faces, fail.faces)
        stored == [f.memory EXCEPT ![s.ptr].fields =
                       [vertices |-> v.ptr, normals |-> n.ptr, faces |-> f.ptr]]
    IN  IF s.ptr = 0 THEN [memory |-> mem, ret |-> 0]
        ELSE IF v.ptr = 0 \/ n.ptr = 0 \/ f.ptr = 0
        THEN [memory |-> mesh_free(stored, s.ptr), ret |-> 0]
        ELSE [memory |-> stored, ret |-> s.ptr]

render3d_init_keep(mem, b, width, height, fail) ==
    LET z == Malloc(mem, "zbuffer", width * height, fail.zbuffer)
        c == Malloc(z.memory, "colorbuffer", width * height, fail.colorbuffer)
        sized == [ZeroCtx EXCEPT !.width = width, !.height = height,
                                 !.zbuffer = z.ptr]
    IN  IF z.ptr = 0 THEN [memory |-> mem, ctx |-> sized, ret |-> FALSE]
        ELSE IF b = 1 /\ c.ptr = 0
        THEN [memory |-> z.memory, ctx |-> sized, ret |-> FALSE]
        ELSE [memory |-> IF b = 1 THEN c.memory ELSE z.memory,
              ctx |-> IF b = 1 THEN [sized EXCEPT !.colorbuffer = c.ptr] ELSE sized,
              ret |-> TRUE]

\* lines 283-317, the allocations: [memory, ctx, ret]; b is DISPLAY_COLOR_MODE
render3d_init_mem(mem, b, width, height, fail) ==
    LET z == Malloc(mem, "zbuffer", width * height, fail.zbuffer)
        c == Malloc(z.memory, "colorbuffer", width * height, fail.colorbuffer)
        sized == [ZeroCtx EXCEPT !.width = width, !.height = height,
                                 !.zbuffer = z.ptr]
    IN  IF z.ptr = 0 THEN [memory |-> mem, ctx |-> sized, ret |-> FALSE]
        ELSE IF b # 1 THEN [memory |-> z.memory, ctx |-> sized, ret |-> TRUE]
        ELSE IF c.ptr = 0
        THEN [memory |-> Free(z.memory, z.ptr), ctx |-> sized, ret |-> FALSE]
        ELSE [memory |-> c.memory, ctx |-> [sized EXCEPT !.colorbuffer = c.ptr],
              ret |-> TRUE]

\* lines 319-324, the three conditional frees
render3d_free_mem(mem, c) ==
    FreeIfSet(FreeIfSet(FreeIfSet(mem, c.zbuffer), c.colorbuffer), c.framebuffer)

\* some block has been handed to free more than once
FreedTwice(mem) == \E k \in DOMAIN mem : mem[k].frees > 1

\* the arguments of the mesh_create calls (mesh_create_cube: 8, 12)
MeshSizes == {<<8, 12>>}

MemFrame == UNCHANGED <<objvars, bldvars, rndvars, pixvars, appvars, build>>

\* the call that returns: n counts it, and a second free of a block is
\* undefined: the allocator may go on or stop the program
Returned(op, value, fail, mem) ==
    \E stop \in (IF FreedTwice(mem) /\ ~FreedTwice(memory) THEN BOOLEAN ELSE {FALSE}) :
        mem_call' = [op |-> op, n |-> mem_call.n + 1, ret |-> value,
                     first |-> Len(memory) + 1, fail |-> fail,
                     ub |-> FreedTwice(mem) /\ ~FreedTwice(memory),
                     aborted |-> stop]

mesh_create_call ==
    /\ mem_call.n < MaxMemCalls /\ ~mem_call.aborted
    /\ \E size \in MeshSizes,
          fail \in [{"mesh", "vertices", "normals", "faces"} -> BOOLEAN] :
       \E out \in {mesh_create_mem(memory, size[1], size[2], fail)} :
          /\ memory' = out.memory
          /\ Returned("mesh_create", out.ret, fail, out.memory)
    /\ UNCHANGED ctx
    /\ MemFrame

render3d_init_call ==
    /\ mem_call.n < MaxMemCalls /\ ~mem_call.aborted
    /\ \E fail \in [{"zbuffer", "colorbuffer"} -> BOOLEAN] :
       \E out \in {render3d_init_mem(memory, build, CtxWidth, CtxHeight, fail)} :
          /\ memory' = out.memory
          /\ ctx' = out.ctx
          /\ Returned("render3d_init", out.ret, fail, out.memory)
    /\ MemFrame

render3d_free_call ==
    /\ mem_call.n < MaxMemCalls /\ ~mem_call.aborted
    /\ \E mem \in {render3d_free_mem(memory, ctx)} :
          /\ memory' = mem
          /\ Returned("render3d_free", 0, <<>>, mem)
    /\ ctx' = ZeroCtx
    /\ MemFrame

\* the static context of either build, nothing allocated yet
InitMem ==
    /\ ObjIdle /\ BldIdle /\ RndIdle /\ PixIdle /\ AppOff
    /\ memory = <<>> /\ ctx = ZeroCtx /\ build \in {0, 1} /\ mem_call = NoCall

NextMem ==
    \/ mesh_create_call
    \/ render3d_init_call
    \/ render3d_free_call

SpecMem == InitMem /\ [][NextMem]_vars

(***************************************************************************)
(* dither_pixel called on its own, any coordinates and any brightness      *)
(***************************************************************************)
MaxCoord == 2         \* x goes from -MaxCoord to MaxCoord, y from -MaxCoord to 1

\* brightness values in 1/BrightUnit: 0, the threshold 2/16 itself, just above
\* the threshold 15/16, and 1
Brightnesses == {0, 125, 938, BrightUnit}

\* one call; the state keeps it and the call before it
dither_pixel_call ==
    /\ \E x \in (0 - MaxCoord)..MaxCoord, y \in (0 - MaxCoord)..1,
          b \in Brightnesses :
         dither_calls' =
             (IF dither_calls = <<>> THEN <<>>
              ELSE <<dither_calls[Len(dither_calls)]>>)
             \o <<[x |-> x, y |-> y, brightness |-> b, ret |-> dither_pixel(x, y, b)]>>
    /\ UNCHANGED <<appvars, objvars, bldvars, rndvars, memvars, pixel_call, line_call, tile_calls>>

\* nothing has been called yet, the frame buffer is zero
InitCalls == ObjIdle /\ BldIdle /\ RndIdle /\ MemIdle /\ PixIdle /\ AppOff

SpecDither == InitCalls /\ [][dither_pixel_call]_vars

(***************************************************************************)
(* dither_pixel called on every pixel of an aligned 4x4 tile, at a         *)
(* brightness of k sixteenths                                              *)
(***************************************************************************)
\* the corners of the tiles, either side of the origin
TileXs == {0 - 4, 4}
TileYs == {0 - 4, 0}

\* the 16 calls over the tile at (x0, y0); lit: the offsets that came back true
dither_tile_call ==
    /\ \E x0 \in TileXs, y0 \in TileYs, k \in 1..15 :
         tile_calls' =
             (IF tile_calls = <<>> THEN <<>> ELSE <<tile_calls[Len(tile_calls)]>>)
             \o <<[x0 |-> x0, y0 |-> y0, k |-> k,
                   lit |-> {q \in (0..3) \X (0..3) :
                               dither_pixel_in(x0 + q[1], y0 + q[2], k, 16)}]>>
    /\ UNCHANGED <<appvars, objvars, bldvars, rndvars, memvars, dither_calls, pixel_call,
                   line_call>>

SpecTile == InitCalls /\ [][dither_tile_call]_vars

(***************************************************************************)
(* ssd1306_set_pixel called on its own, in and out of the display          *)
(***************************************************************************)
\* the coordinates of the calls: the corners, their neighbours outside, and
\* two rows of one page
PixelXs == {0 - 1, 0, SSD1306_WIDTH - 1, SSD1306_WIDTH}
PixelYs == {0 - 1, 0, 1, SSD1306_HEIGHT - 1, SSD1306_HEIGHT}

ssd1306_set_pixel_call ==
    /\ \E x \in PixelXs, y \in PixelYs, on \in BOOLEAN :
         /\ frame_buffer' = ssd1306_set_pixel(frame_buffer, x, y, on)
         /\ pixel_call' = [x |-> x, y |-> y, on |-> on, before |-> frame_buffer]
    /\ UNCHANGED <<appvars, objvars, bldvars, memvars, dither_calls, zbuffer, light, frags,
                   draws, last_op, before, camvars, drawn, line_call, tile_calls>>

SpecPixel == InitCalls /\ [][ssd1306_set_pixel_call]_vars

(***************************************************************************)
(* render3d_draw_line called on its own, between points on and off the     *)
(* display and between points too far apart for int                        *)
(***************************************************************************)
MaxLines == 1

\* INT_MAX of the 32-bit int of the parameters
IntMax == 2147483647

\* a - b leaves the range of int
SubOverflows(a, b) ==
    \/ b < 0 /\ a > IntMax + b
    \/ b > 0 /\ a < (0 - IntMax - 1) + b

\* the endpoints about the corner (0, 0) of the display and about its
\* opposite corner: on the display, and off it on either side
NearXs == {0 - 2, 1, 12}
NearYs == {0 - 2, 1, 9}
FarXs == {SSD1306_WIDTH - 9, SSD1306_WIDTH - 2, SSD1306_WIDTH + 1}
FarYs == {SSD1306_HEIGHT - 3, SSD1306_HEIGHT + 1}

\* <<x0, y0, x1, y1>> of the calls: every pair of points about one corner,
\* and two pairs whose difference in x is beyond INT_MAX
LineEnds ==
    {<<x0, y0, x1, y1>> : x0 \in NearXs, y0 \in NearYs, x1 \in NearXs, y1 \in NearYs}
        \cup {<<x0, y0, x1, y1>> : x0 \in FarXs, y0 \in FarYs, x1 \in FarXs,
                                   y1 \in FarYs}
        \cup {<<0 - IntMax, 0, IntMax, 1>>, <<IntMax, 1, 0 - IntMax, 0>>}

\* lines 72-96; where x1 - x0 or y1 - y0 of lines 73-74 overflows, the
\* behaviour is undefined: the call may return or never return
render3d_draw_line_call ==
    /\ line_call.n < MaxLines
    /\ \E e \in LineEnds :
         IF SubOverflows(e[3], e[1]) \/ SubOverflows(e[4], e[2])
         THEN /\ \E back \in BOOLEAN :
                   line_call' = [n |-> line_call.n + 1, ends |-> e,
                                 before |-> frame_buffer, path |-> <<>>,
                                 ub |-> TRUE, returned |-> back]
              /\ frame_buffer' = frame_buffer
         ELSE \E R \in {render3d_draw_line(Raster, e[1], e[2], e[3], e[4])} :
                 /\ line_call' = [n |-> line_call.n + 1, ends |-> e,
                                  before |-> frame_buffer, path |-> R.path,
                                  ub |-> FALSE, returned |-> TRUE]
                 /\ frame_buffer' = R.frame_buffer
    /\ UNCHANGED <<appvars, objvars, bldvars, memvars, dither_calls, pixel_call, tile_calls,
                   zbuffer, light, frags, draws, last_op, before, camvars, drawn>>

SpecLine == InitCalls /\ [][render3d_draw_line_call]_vars

(***************************************************************************)
(* What a text says, read off the records it was written from              *)
(***************************************************************************)
IsOK(msg) == Len(msg) > 0 /\ msg[1] = "OK"

NumV(recs) == Cardinality({k \in 1..Len(recs) : recs[k].t = "v"})
VBefore(recs, k) == Cardinality({j \in 1..(k - 1) : recs[j].t = "v"})

\* the vertex a face token names when n vertices precede it, counted from 0
Names(t, n) == (t.v >= 1 /\ t.v <= n) \/ (t.v <= -1 /\ 0 - t.v <= n)
RefIndex(t, n) == IF t.v > 0 THEN t.v - 1 ELSE n - (0 - t.v)
Named(ts, n) ==
    LET sel == SelectSeq(ts, LAMBDA t : Names(t, n))
    IN  [k \in 1..Len(sel) |-> RefIndex(sel[k], n)]

\* the C array holding the sequence s: slot k is s[k + 1]
AsArray(s) == [k \in 0..(Len(s) - 1) |-> s[k + 1]]

FirstN(s, n) == SubSeq(s, 1, IF Len(s) < n THEN Len(s) ELSE n)
IsPrefix(s, t) == Len(s) <= Len(t) /\ s = SubSeq(t, 1, Len(s))

\* the fan of a polygon over the vertices ix
ExpectedTris(ix, color) ==
    IF Len(ix) < 3 THEN <<>>
    ELSE [k \in 1..(Len(ix) - 2) |->
            [v |-> <<ix[1], ix[k + 1], ix[k + 2]>>, color |-> color]]

RECURSIVE ExpectedFaces(_, _, _, _)
\* the triangles of the face records lo..hi of recs, in order
ExpectedFaces(recs, lo, hi, color) ==
    IF lo > hi THEN <<>>
    ELSE IF lo = hi
    THEN IF recs[lo].t = "f"
         THEN ExpectedTris(Named(recs[lo].ix, VBefore(recs, lo)), color)
         ELSE <<>>
    ELSE LET h == (lo + hi) \div 2
         IN  ExpectedFaces(recs, lo, h, color) \o ExpectedFaces(recs, h + 1, hi, color)

RECURSIVE TokenTriCount(_, _, _)
\* the triangles of the face records lo..hi, every index token counted
TokenTriCount(recs, lo, hi) ==
    IF lo > hi THEN 0
    ELSE IF lo = hi
    THEN IF recs[lo].t = "f" /\ Len(recs[lo].ix) >= 3 THEN Len(recs[lo].ix) - 2 ELSE 0
    ELSE LET h == (lo + hi) \div 2
         IN  TokenTriCount(recs, lo, h) + TokenTriCount(recs, h + 1, hi)

NgonsWithinLimit(recs) ==
    \A k \in 1..Len(recs) :
        recs[k].t = "f" => Len(Named(recs[k].ix, VBefore(recs, k))) <= MAX_NGON

\* the record whose line holds position q (one record per line)
LineOf(d, q) == Cardinality({i \in 1..(q - 1) : At(d, i) = NL}) + 1

(***************************************************************************)
(* Claims about the loader                                                 *)
(***************************************************************************)
\* C3: obj_load_from_string terminates on every text, well-formed or not:
\* every call eventually returns.
ObjTerminates == <>(pc = "done")

\* C4: when the text holds more than MAX_VERTICES vertex records or more than
\* MAX_FACES triangles, the call returns NULL, the status is not a success
\* message and no mesh has been allocated.
ObjRejectsOversize ==
    (pc = "done" /\ (NumV(records) > MAX_VERTICES
                     \/ TokenTriCount(records, 1, Len(records)) > MAX_FACES))
    => (ret = NULL /\ ~IsOK(error_msg) /\ mesh = NULL /\ heap = 0)

ObjRejectsOversizeWitness ==
    /\ pc = "done"
    /\ NumV(records) <= MAX_VERTICES
    /\ TokenTriCount(records, 1, Len(records)) = MAX_FACES + 1
    /\ ret = NULL
    /\ error_msg[1] = "Model too large"

\* C5: after every call the status is a success message iff that call
\* returned a mesh, whatever the earlier calls returned.
ObjStatusOfLastCall == pc = "done" => (IsOK(error_msg) <=> ret # NULL)

ObjStatusOfLastCallWitness ==
    /\ pc = "done"
    /\ history = <<TRUE, FALSE>>
    /\ ret # NULL
    /\ IsOK(error_msg)

\* C6: a face record with n named vertices, n at most 16, yields the n-2
\* triangles (i1, ik, ik+1), k = 2..n-1, in order and in the default color,
\* and none when n < 3.
ObjFanTriangulation ==
    (pc = "done" /\ ret # NULL /\ NgonsWithinLimit(records))
    => /\ ret.faces = AsArray(ExpectedFaces(records, 1, Len(records), default_color))
       /\ DOMAIN ret.faces = 0..(ret.face_count - 1)

ObjFanTriangulationWitness ==
    /\ pc = "done" /\ ret # NULL
    /\ records = Ngon(MAX_NGON)
    /\ ret.face_count = MAX_NGON - 2
    /\ ret.faces[MAX_NGON - 3].v = <<0, MAX_NGON - 2, MAX_NGON - 1>>

\* C7: while a face record is read, vi is the number of vertex records before
\* it and the indices kept are k-1 for a token k > 0 and vi-k for a token -k;
\* the returned mesh has one vertex per 'v' record.
ObjIndexResolution ==
    /\ pc = "parse_face" =>
         LET k == LineOf(obj_data, p)
             r == records[k]
             want == FirstN(Named(r.ix, vi), MAX_NGON)
         IN  r.t = "f" =>
               /\ vi = VBefore(records, k)
               /\ nv = Len(face_indices)
               /\ IsPrefix(face_indices, want)
               /\ At(obj_data, p) \in {NL, NUL} => face_indices = want
    /\ (pc = "done" /\ ret # NULL) =>
         /\ ret.vertex_count = NumV(records)
         /\ DOMAIN ret.vertices = 0..(NumV(records) - 1)

ObjIndexResolutionWitness ==
    /\ pc = "parse_face"
    /\ records[LineOf(obj_data, p)] = FRel
    /\ At(obj_data, p) = NL
    /\ vi = 3
    /\ face_indices = <<2, 1, 0, 0>>

(***************************************************************************)
(* Claims about the meshes the builders and the loader return              *)
(***************************************************************************)
\* the sphere of c rings and 2c slices, slot by slot
ExpectedSphereVertices(c) ==
    [k \in 0..((c - 1) * (2 * c) + 1) |->
        IF k = 0 THEN [ring |-> 0, slice |-> 0]
        ELSE IF k = (c - 1) * (2 * c) + 1 THEN [ring |-> c, slice |-> 0]
        ELSE [ring |-> ((k - 1) \div (2 * c)) + 1, slice |-> (k - 1) % (2 * c)]]

ExpectedSphereTri(k, c) ==
    LET n == 2 * c
        mid == 2 * n * (c - 2)
        q == k - n
        r == q \div (2 * n)
        s == (q % (2 * n)) \div 2
        t == k - n - mid
        a == 1 + r * n
        b == 1 + (r + 1) * n
        last == 1 + (c - 2) * n
    IN  IF k < n THEN <<0, 1 + k, 1 + ((k + 1) % n)>>
        ELSE IF k < n + mid
        THEN IF q % 2 = 0 THEN <<a + s, b + s, b + ((s + 1) % n)>>
             ELSE <<a + s, b + ((s + 1) % n), a + ((s + 1) % n)>>
        ELSE <<(c - 1) * n + 1, last + ((t + 1) % n), last + t>>

ExpectedSphereFaces(c) ==
    [k \in 0..((c - 2) * (2 * c) * 2 + (2 * c) * 2 - 1) |->
        [v |-> ExpectedSphereTri(k, c), color |-> <<255, 220, 180>>]]

\* s clamped to [4, 16]
ClampedTo4And16(n) == IF n < 4 THEN 4 ELSE IF n > 16 THEN 16 ELSE n

WrittenOnce(w, n) == DOMAIN w = 0..(n - 1) /\ \A k \in DOMAIN w : w[k] = 1

\* every face of m names three vertices of m
FaceIndicesInRange(m) ==
    \A k \in 0..(m.face_count - 1) :
        /\ k \in DOMAIN m.faces
        /\ \A j \in 1..3 : m.faces[k].v[j] >= 0 /\ m.faces[k].v[j] < m.vertex_count

\* C8: every face of every mesh a builder or the loader returns has its three
\* vertex indices below the mesh's vertex_count.
MeshIndicesValid ==
    /\ (bpc = "done" /\ bret # NULL) => FaceIndicesInRange(bret)
    /\ (pc = "done" /\ ret # NULL) => FaceIndicesInRange(ret)

MeshIndicesValidWitness ==
    /\ bpc = "done" /\ builder = "sphere" /\ bret # NULL
    /\ bret.vertex_count = 482
    /\ bret.face_count = 960
    /\ bret.faces[959].v = <<481, 449, 480>>

\* C9: mesh_create_sphere(r, s) returns the sphere of c = s clamped to [4,16]:
\* (c-1)*(2c)+2 vertices and (c-2)*(2c)*2+(2c)*2 faces, the same mesh for
\* every s with the same c, every allocated slot written exactly once.
SphereAsSpecified ==
    (bpc = "done" /\ builder = "sphere" /\ bret # NULL) =>
        LET c == ClampedTo4And16(seg_arg)
            nverts == (c - 1) * (2 * c) + 2
            nfaces == (c - 2) * (2 * c) * 2 + (2 * c) * 2
        IN  /\ bret.vertex_count = nverts
            /\ bret.face_count = nfaces
            /\ bret.max_verts = nverts
            /\ bret.max_faces = nfaces
            /\ WrittenOnce(bret.vertex_writes, bret.max_verts)
            /\ WrittenOnce(bret.face_writes, bret.max_faces)
            /\ bret.vertices = ExpectedSphereVertices(c)
            /\ bret.faces = ExpectedSphereFaces(c)

SphereAsSpecifiedWitness ==
    /\ bpc = "done" /\ builder = "sphere" /\ bret # NULL
    /\ seg_arg = 100
    /\ bret.vertex_count = 15 * 32 + 2
    /\ bret.face_count = 14 * 32 * 2 + 32 * 2
    /\ bret.vertex_writes[481] = 1
    /\ bret.face_writes[959] = 1

\* C10: every mesh a builder or the loader returns has at most MAX_VERTICES
\* vertices and at most MAX_FACES faces.
MeshWithinCapacity ==
    /\ (bpc = "done" /\ bret # NULL) =>
          bret.vertex_count <= MAX_VERTICES /\ bret.face_count <= MAX_FACES
    /\ (pc = "done" /\ ret # NULL) =>
          ret.vertex_count <= MAX_VERTICES /\ ret.face_count <= MAX_FACES

(***************************************************************************)
(* Claims about the renderer                                               *)
(***************************************************************************)
\* the nearer of two fragments
Nearer(f, g) == IF f.z < g.z THEN f ELSE g

\* C1: starting from a cleared context, when two fragments of different
\* depths cover a pixel, in whichever order they were drawn the depth cell and
\* the displayed pixel are those of the fragment with the smaller depth.
DepthTestOrderIndependent ==
    \A k \in DOMAIN frags :
        (Len(frags[k]) = 2 /\ frags[k][1].z # frags[k][2].z) =>
            /\ zbuffer[k] = Nearer(frags[k][1], frags[k][2]).z
            /\ ssd1306_get_pixel(frame_buffer, k % CtxWidth, k \div CtxWidth)
                 = Nearer(frags[k][1], frags[k][2]).on

\* C2: after render3d_clear returns every one of the width*height depth cells
\* holds 1000.0 and every display pixel is off, whatever was drawn before.
ClearResetsAll ==
    last_op = "clear" =>
        /\ \A k \in 0..(CtxWidth * CtxHeight - 1) :
              k \in DOMAIN zbuffer /\ zbuffer[k] = Z_CLEAR * DepthUnit
        /\ \A x \in 0..(SSD1306_WIDTH - 1), y \in 0..(SSD1306_HEIGHT - 1) :
              ~ssd1306_get_pixel(frame_buffer, x, y)

ClearResetsAllWitness ==
    /\ last_op = "clear"
    /\ before.depth /\ before.lit
    /\ zbuffer[CtxWidth * CtxHeight - 1] = Z_CLEAR * DepthUnit
    /\ frame_buffer[0] = 0

(***************************************************************************)
(* The allocations of mesh_create and render3d_init                        *)
(***************************************************************************)
\* the blocks the last call allocated
NewBlocks == mem_call.first..Len(memory)

\* the allocations of the last mesh_create call that did not fail
Succeeded ==
    IF mem_call.fail.mesh THEN {}
    ELSE {"mesh"} \cup {w \in {"vertices", "normals", "faces"} : ~mem_call.fail[w]}

\* C11: whichever of the four allocations of mesh_create fail, it returns
\* NULL and every allocation that succeeded has been freed exactly once; it
\* returns a mesh only when all four succeeded (and then frees nothing)
MeshCreateAllOrNothing ==
    mem_call.op = "mesh_create" =>
        /\ mem_call.ret # 0 <=> \A w \in DOMAIN mem_call.fail : ~mem_call.fail[w]
        /\ {memory[k].what : k \in NewBlocks} = Succeeded
        /\ Cardinality(NewBlocks) = Cardinality(Succeeded)
        /\ mem_call.ret = 0 => \A k \in NewBlocks : memory[k].frees = 1
        /\ mem_call.ret # 0 =>
              /\ \A k \in NewBlocks : memory[k].frees = 0
              /\ memory[mem_call.ret].what = "mesh"

\* mesh_create has failed on the normal array alone and released the rest
MeshCreateAllOrNothingWitness ==
    /\ mem_call.op = "mesh_create"
    /\ mem_call.fail = [mesh |-> FALSE, vertices |-> FALSE, normals |-> TRUE,
                        faces |-> FALSE]
    /\ mem_call.ret = 0
    /\ Cardinality(NewBlocks) = 3
    /\ \A k \in NewBlocks : memory[k].frees = 1

\* the pointer is that of a block which has not been freed
Live(ptr) == ptr \in DOMAIN memory /\ memory[ptr].frees = 0

\* the buffers render3d_init allocates
CtxBlocks == {k \in DOMAIN memory : memory[k].what \in {"zbuffer", "colorbuffer"}}

\* C12: render3d_init returns false exactly when the depth buffer (or, in
\* the color build, the color buffer) cannot be allocated; after false neither
\* buffer pointer of the context is that of a live block, after true the depth
\* buffer is live and has width * height cells
InitReportsAllocation ==
    mem_call.op = "render3d_init" =>
        /\ mem_call.ret = FALSE <=>
              (mem_call.fail.zbuffer \/ (build = 1 /\ mem_call.fail.colorbuffer))
        /\ mem_call.ret = FALSE => ~Live(ctx.zbuffer) /\ ~Live(ctx.colorbuffer)
        /\ mem_call.ret = TRUE =>
              /\ Live(ctx.zbuffer)
              /\ memory[ctx.zbuffer].what = "zbuffer"
              /\ memory[ctx.zbuffer].cells = ctx.width * ctx.height
              /\ ctx.width = CtxWidth /\ ctx.height = CtxHeight

\* the color build has allocated the depth buffer, failed on the color buffer
\* and returned false
InitReportsAllocationWitness ==
    /\ mem_call.op = "render3d_init"
    /\ build = 1
    /\ ~mem_call.fail.zbuffer /\ mem_call.fail.colorbuffer
    /\ mem_call.ret = FALSE
    /\ ctx.zbuffer # 0 /\ ~Live(ctx.zbuffer)

\* C13: over every sequence of render3d_init and render3d_free calls no
\* buffer is freed twice, and when render3d_free has returned every buffer
\* allocated so far has been freed
BuffersReleasedOnce ==
    /\ \A k \in CtxBlocks : memory[k].frees <= 1
    /\ mem_call.op = "render3d_free" => \A k \in CtxBlocks : memory[k].frees = 1

(***************************************************************************)
(* dither_pixel and ssd1306_set_pixel                                      *)
(***************************************************************************)
\* C14: dither_pixel(x, y, b) is false for b <= 0, true for b >= 1 and
\* otherwise true iff b * 16 > DITHER_BAYER4[y mod 4][x mod 4], for negative
\* x and y too; two calls with the same arguments return the same value
DitherIsPure ==
    /\ \A k \in DOMAIN dither_calls :
         LET c == dither_calls[k]
         IN  c.ret = IF c.brightness <= 0 THEN FALSE
                     ELSE IF c.brightness >= BrightUnit THEN TRUE
                     ELSE c.brightness * 16 >
                              DITHER_BAYER4[(c.y % 4) + 1][(c.x % 4) + 1] * BrightUnit
    /\ \A j, k \in DOMAIN dither_calls :
         (/\ dither_calls[j].x = dither_calls[k].x
          /\ dither_calls[j].y = dither_calls[k].y
          /\ dither_calls[j].brightness = dither_calls[k].brightness)
         => dither_calls[j].ret = dither_calls[k].ret

\* the same call made twice at the negative coordinates (-2, -1), which select
\* DITHER_BAYER4[3][2] = 13: 0.938 * 16 is above it and both calls return true
DitherIsPureWitness ==
    /\ Len(dither_calls) = 2
    /\ dither_calls[1] = dither_calls[2]
    /\ dither_calls[2].x = 0 - 2 /\ dither_calls[2].y = 0 - 1
    /\ dither_calls[2].brightness = 938
    /\ dither_calls[2].ret = TRUE

\* the last ssd1306_set_pixel call was inside the display
PixelInRange ==
    /\ pixel_call.x >= 0 /\ pixel_call.x < SSD1306_WIDTH
    /\ pixel_call.y >= 0 /\ pixel_call.y < SSD1306_HEIGHT

\* C16: ssd1306_set_pixel outside the display leaves the frame buffer as it
\* was; inside, every bit but that of pixel (x, y) is as it was and
\* ssd1306_get_pixel(x, y) returns the value set
SetPixelTouchesOneBit ==
    pixel_call # NULL =>
        IF ~PixelInRange THEN frame_buffer = pixel_call.before
        ELSE LET idx == (pixel_call.y \div 8) * SSD1306_WIDTH + pixel_call.x
             IN  /\ DOMAIN frame_buffer = DOMAIN pixel_call.before
                 /\ \A k \in DOMAIN frame_buffer :
                      k # idx => frame_buffer[k] = pixel_call.before[k]
                 /\ frame_buffer[idx] \in 0..255
                 /\ \A bit \in 0..7 :
                      bit # pixel_call.y % 8 =>
                          (BitIsSet(frame_buffer[idx], bit)
                               <=> BitIsSet(pixel_call.before[idx], bit))
                 /\ ssd1306_get_pixel(frame_buffer, pixel_call.x, pixel_call.y)
                        = pixel_call.on

\* pixel (0, 1) has been cleared in a byte where pixel (0, 0) is set
SetPixelTouchesOneBitWitness ==
    /\ pixel_call # NULL
    /\ pixel_call.x = 0 /\ pixel_call.y = 1 /\ ~pixel_call.on
    /\ pixel_call.before[0] = 3
    /\ frame_buffer[0] = 1

\* a call outside the display has found lit pixels
SetPixelOutsideWitness ==
    /\ pixel_call # NULL
    /\ pixel_call.x = SSD1306_WIDTH /\ pixel_call.y = 0 /\ pixel_call.on
    /\ pixel_call.before[SSD1306_WIDTH - 1] = 1
    /\ frame_buffer = pixel_call.before

(***************************************************************************)
(* Claims about culling, the depth test and the near-plane test            *)
(***************************************************************************)
\* the last call was a draw call of the given kinds on a mesh of one triangle
DrewTriangle(ops) ==
    /\ last_op \in ops
    /\ drawn # NULL
    /\ drawn.mesh # NULL
    /\ drawn.mesh.face_count = 1

\* the world-space vertices of the triangle of m, in winding order
Tri(m) == [k \in 1..3 |-> m.vertices[m.faces[0].v[k]]]

\* the dot product of the face normal with the view direction, as
\* calculate_face_normal and vec3_normalize compute them
FacingDot(m) ==
    vec3_dot(calculate_face_normal(Tri(m)[1], Tri(m)[2], Tri(m)[3], m.exp),
             vec3_normalize(vec3_sub(CameraPosition(m.exp), Tri(m)[1]), m.exp))

\* the depths of the three projected vertices
Depths(m) == [k \in 1..3 |-> project_point(Tri(m)[k], m.exp).z]

\* the same mesh with the last two indices of its triangle swapped
Swapped(m) == [m EXCEPT !.faces[0].v = <<@[1], @[3], @[2]>>]

\* the call stored no pixel and no depth cell, and made no fragment
WroteNothing == drawn.made = 0 /\ drawn.writes = 0

\* C15: render3d_draw_mesh rasterizes a triangle whose face normal points at
\* the camera (and which passes the near-plane test), and writes no pixel and
\* no depth cell for the same vertices with two indices swapped
WindingDecidesCulling ==
    DrewTriangle({"draw_mesh"}) =>
        /\ (FacingDot(drawn.mesh) > 0 /\ \A k \in 1..3 : Depths(drawn.mesh)[k] >= 0)
               => drawn.made > 0
        /\ FacingDot(Swapped(drawn.mesh)) > 0 => WroteNothing

\* after a clear, a triangle facing the camera has been rasterized and then
\* the same triangle with reversed winding has been handed in and discarded
WindingDecidesCullingWitness ==
    /\ DrewTriangle({"draw_mesh"})
    /\ FacingDot(Swapped(drawn.mesh)) > 0
    /\ WroteNothing
    /\ draws = 2
    /\ \E k \in DOMAIN frags : frags[k] # <<>>

RECURSIVE DepthReplay(_, _)
\* what a cell holds after the fragments fs in order, when a fragment is
\* stored iff its depth is strictly less than the one stored
DepthReplay(fs, cell) ==
    IF fs = <<>> THEN cell
    ELSE DepthReplay(Tail(fs), IF Head(fs).z < cell.z THEN Head(fs) ELSE cell)

\* C17: a fragment is stored, pixel and depth, iff its depth is strictly less
\* than the stored one: since the last render3d_clear every cell holds the
\* least depth of its fragments (or the clear value) and the pixel of the
\* first fragment of that depth
DepthTestStrict ==
    \A k \in DOMAIN frags :
        LET cell == DepthReplay(frags[k], [z |-> ZClear, on |-> FALSE])
        IN  /\ zbuffer[k] = cell.z
            /\ zbuffer[k] <= ZClear
            /\ \A j \in DOMAIN frags[k] : zbuffer[k] <= frags[k][j].z
            /\ ssd1306_get_pixel(frame_buffer, k % CtxWidth, k \div CtxWidth)
                 = cell.on

\* two fragments of one depth and different pixel values have met in a cell,
\* and the cell shows the first
DepthTestStrictWitness ==
    \E k \in DOMAIN frags :
        /\ Len(frags[k]) = 2
        /\ frags[k][1].z = frags[k][2].z
        /\ frags[k][1].z < ZClear
        /\ frags[k][1].on # frags[k][2].on
        /\ zbuffer[k] = frags[k][1].z
        /\ ssd1306_get_pixel(frame_buffer, k % CtxWidth, k \div CtxWidth)
             = frags[k][1].on

\* C18: render3d_draw_mesh writes no pixel and no depth cell for a triangle
\* whose face normal has a dot product <= 0 with the view direction, the dot
\* product 0 of edge-on and zero-area triangles included
ZeroDotDiscarded ==
    (DrewTriangle({"draw_mesh"}) /\ FacingDot(drawn.mesh) <= 0) => WroteNothing

\* C19: render3d_draw_mesh and render3d_draw_mesh_wireframe write nothing
\* for a triangle with a projected vertex of depth <= 0, depth 0 included
NonPositiveDepthSkipped ==
    (/\ DrewTriangle({"draw_mesh", "draw_mesh_wireframe"})
     /\ \E k \in 1..3 : Depths(drawn.mesh)[k] <= 0)
    => WroteNothing

\* C20: render3d_draw_mesh and render3d_draw_mesh_wireframe write nothing
\* for a triangle with a vertex behind the camera (the camera is at the
\* origin and looks down -z: view-space z > 0)
BehindCameraInvisible ==
    (/\ DrewTriangle({"draw_mesh", "draw_mesh_wireframe"})
     /\ \E k \in 1..3 : Tri(drawn.mesh)[k][3] > 0)
    => WroteNothing

\* ambient + max(0, -(normal . direction)) * intensity, clamped into [0, 1],
\* for the triangle of m under the light l
ClampedShade(m, l) ==
    LET d == 0 - vec3_dot(calculate_face_normal(Tri(m)[1], Tri(m)[2], Tri(m)[3],
                                                m.exp), l.direction)
        b == l.ambient + FloorDiv((IF d < 0 THEN 0 ELSE d) * l.intensity, BrightUnit)
    IN  IF b < 0 THEN 0 ELSE IF b > BrightUnit THEN BrightUnit ELSE b

\* C21: the brightness render3d_draw_mesh hands to the rasterizer for a
\* triangle is ambient + max(0, -(normal . light direction)) * intensity
\* clamped into [0, 1]: never below 0 and never above 1, whatever light
\* render3d_set_light was given
BrightnessClamped ==
    DrewTriangle({"draw_mesh"}) =>
        \A k \in DOMAIN drawn.shades :
            /\ drawn.shades[k] = ClampedShade(drawn.mesh, light)
            /\ drawn.shades[k] >= 0
            /\ drawn.shades[k] <= BrightUnit

\* a step that is a call of render3d_draw_mesh_wireframe
WireframeStep == last_op' = "draw_mesh_wireframe" /\ draws' = draws + 1

\* every pixel lit in frame buffer fa is lit in fb
LitKept(fa, fb) ==
    \A k \in DOMAIN fa :
        fa[k] # 0 => \A bit \in 0..7 : BitIsSet(fa[k], bit) => BitIsSet(fb[k], bit)

\* C22: render3d_draw_mesh_wireframe leaves every depth cell as it was, turns
\* no pixel off, and draws the same pixels whatever the depth buffer holds
WireframeKeepsDepth ==
    [][WireframeStep =>
          /\ zbuffer' = zbuffer
          /\ frags' = frags
          /\ LitKept(frame_buffer, frame_buffer')
          /\ drawn'.mesh # NULL =>
                frame_buffer' =
                    WireFaces([Raster EXCEPT !.zbuffer = [k \in DOMAIN @ |-> 0]],
                              drawn'.mesh, 0).frame_buffer]_vars

\* a wireframe call that lit pixels over depth cells a filled draw had stored
WireframeKeepsDepthWitness ==
    /\ last_op = "draw_mesh_wireframe"
    /\ drawn.writes > 0
    /\ \E k \in DOMAIN frags : Len(frags[k]) > 0
    /\ \E k \in DOMAIN zbuffer : zbuffer[k] < ZClear /\ zbuffer[k] > 0

\* the absolute value of n
Abs(n) == IF n < 0 THEN 0 - n ELSE n

\* the larger of a and b
Max(a, b) == IF a > b THEN a ELSE b

\* position q lies on the display
OnDisplay(q) ==
    q[1] >= 0 /\ q[1] < SSD1306_WIDTH /\ q[2] >= 0 /\ q[2] < SSD1306_HEIGHT

\* render3d_draw_line was called with endpoints whose differences fit int
LineDrawn == line_call.n > 0 /\ ~line_call.ub

\* the positions are those of the unclipped line from (x0, y0) to (x1, y1):
\* one per step of the longer axis, each within half a pixel of the segment
OnSegment(path, e) ==
    /\ Len(path) = Max(Abs(e[3] - e[1]), Abs(e[4] - e[2])) + 1
    /\ path[1] = <<e[1], e[2]>>
    /\ path[Len(path)] = <<e[3], e[4]>>
    /\ \A k \in DOMAIN path :
          2 * Abs((path[k][1] - e[1]) * (e[4] - e[2])
                    - (path[k][2] - e[2]) * (e[3] - e[1]))
              <= Max(Abs(e[3] - e[1]), Abs(e[4] - e[2]))

\* C23: render3d_draw_line stores only within the frame buffer, lights every
\* on-display position of the whole unclipped line between its endpoints,
\* wherever the endpoints lie, and changes no other pixel
LineClipsPerPixel ==
    LineDrawn =>
        /\ OnSegment(line_call.path, line_call.ends)
        /\ DOMAIN frame_buffer = DOMAIN line_call.before
        /\ \A k \in DOMAIN line_call.path :
              OnDisplay(line_call.path[k]) =>
                  ssd1306_get_pixel(frame_buffer, line_call.path[k][1],
                                    line_call.path[k][2])
        /\ \A k \in DOMAIN frame_buffer :
              frame_buffer[k] # line_call.before[k] =>
                  \A bit \in 0..7 :
                      BitIsSet(frame_buffer[k], bit) <=>
                          \/ BitIsSet(line_call.before[k], bit)
                          \/ \E j \in DOMAIN line_call.path :
                                line_call.path[j] =
                                    <<k % SSD1306_WIDTH,
                                      (k \div SSD1306_WIDTH) * 8 + bit>>

\* a line from below and left of the display to above and right of it, with
\* positions on the display between
LineClipsPerPixelWitness ==
    /\ LineDrawn
    /\ ~OnDisplay(<<line_call.ends[1], line_call.ends[2]>>)
    /\ ~OnDisplay(<<line_call.ends[3], line_call.ends[4]>>)
    /\ \E k \in DOMAIN line_call.path : OnDisplay(line_call.path[k])
    /\ \E k \in DOMAIN line_call.path : ~OnDisplay(line_call.path[k])
    /\ frame_buffer # line_call.before

\* C27: every call of render3d_draw_line returns, having visited exactly
\* max(|dx|, |dy|) + 1 positions, the first (x0, y0) and the last (x1, y1),
\* each next one at most one step in x and in y nearer the target
LineTerminates ==
    line_call.n > 0 =>
        /\ line_call.returned
        /\ line_call.path # <<>>
        /\ line_call.path[1] = <<line_call.ends[1], line_call.ends[2]>>
        /\ line_call.path[Len(line_call.path)]
               = <<line_call.ends[3], line_call.ends[4]>>
        /\ Len(line_call.path)
               = Max(Abs(line_call.ends[3] - line_call.ends[1]),
                     Abs(line_call.ends[4] - line_call.ends[2])) + 1
        /\ \A k \in 1..(Len(line_call.path) - 1) :
              \A c \in 1..2 :
                  /\ Abs(line_call.path[k + 1][c] - line_call.path[k][c]) <= 1
                  /\ Abs(line_call.ends[c + 2] - line_call.path[k + 1][c])
                         <= Abs(line_call.ends[c + 2] - line_call.path[k][c])

\* every slot of m written so far lies below the capacity m was created with
WritesWithinCapacity(m) ==
    /\ \A k \in DOMAIN m.vertex_writes : k >= 0 /\ k < m.max_verts
    /\ \A k \in DOMAIN m.face_writes : k >= 0 /\ k < m.max_faces

\* a builder has returned a mesh
Built == bpc = "done" /\ bret # NULL

\* C24 as stated: the mesh a builder returns has vertex_count equal to the
\* max_verts and face_count equal to the max_faces it asked mesh_create for,
\* and no slot at or beyond that capacity was written
BuildersFillCapacity ==
    Built =>
        /\ bret.vertex_count = bret.max_verts
        /\ bret.face_count = bret.max_faces
        /\ WritesWithinCapacity(bret)

\* C24, amended: no builder writes a slot at or beyond the capacity it asked
\* for, during the build or after it; the cube and the sphere fill their
\* capacity exactly, the face fills 23 of 32 vertices and 20 of 40 faces, the
\* cake 35 of 36 vertices and 54 of 56 faces
BuildersWithinCapacity ==
    /\ (bpc # "call" /\ bmesh # NULL) => WritesWithinCapacity(bmesh)
    /\ Built =>
          /\ WritesWithinCapacity(bret)
          /\ bret.vertex_count <= bret.max_verts
          /\ bret.face_count <= bret.max_faces
          /\ builder \in {"cube", "sphere"} =>
                /\ bret.vertex_count = bret.max_verts
                /\ bret.face_count = bret.max_faces
          /\ builder = "face" =>
                /\ bret.max_verts = 32 /\ bret.vertex_count = 23
                /\ bret.max_faces = 40 /\ bret.face_count = 20
          /\ builder = "cake" =>
                /\ bret.max_verts = 36 /\ bret.vertex_count = 35
                /\ bret.max_faces = 56 /\ bret.face_count = 54

\* the cake has been returned with its last vertex and face slots unwritten
BuildersWithinCapacityWitness ==
    /\ Built
    /\ builder = "cake"
    /\ DOMAIN bret.vertex_writes = 0..34
    /\ DOMAIN bret.face_writes = 0..53
    /\ bret.max_verts = 36

\* C25: after a successful render3d_init and any calls of set_camera,
\* set_light, clear, draw and present, the cached view matrix is the look-at
\* matrix of the context's camera and the cached projection matrix its
\* perspective matrix with aspect width / height
MatricesFollowCamera ==
    /\ view_matrix = mat4_look_at(camera.position, camera.target, camera.up)
    /\ proj_matrix = mat4_perspective(camera.fov, CtxWidth, CtxHeight, camera.near,
                                      camera.far)

\* the projected vertices of the triangle of m
Projected(m) == [k \in 1..3 |-> project_point(Tri(m)[k], m.exp)]

\* C26: every depth-buffer index draw_scanline reads or writes lies in
\* 0 .. width * height - 1, whatever the row and the ends of the span
ScanlineIndexInRange ==
    /\ drawn # NULL => drawn.outside = 0
    /\ DOMAIN zbuffer = 0..(CtxWidth * CtxHeight - 1)

\* a triangle reaching over the left, the right, the top and the bottom edge
\* of the screen has been rasterized
ScanlineIndexInRangeWitness ==
    /\ DrewTriangle({"draw_mesh"})
    /\ drawn.made >= CtxWidth * CtxHeight
    /\ drawn.outside = 0
    /\ \E k \in 1..3 : Projected(drawn.mesh)[k].x < 0
    /\ \E k \in 1..3 : Projected(drawn.mesh)[k].x > CtxWidth * SubPixel
    /\ \E k \in 1..3 : Projected(drawn.mesh)[k].y < 0
    /\ \E k \in 1..3 : Projected(drawn.mesh)[k].y > CtxHeight * SubPixel

\* C28: DITHER_BAYER4 holds each of 0..15 exactly once; at a brightness of
\* k / 16 with 0 < k < 16 dither_pixel lights exactly k of the 16 pixels of an
\* aligned 4x4 tile, and the pixels lit at a lower brightness are lit at
\* every higher one
BayerLightsKOfSixteen ==
    /\ \A t \in 0..15 :
          Cardinality({q \in (1..4) \X (1..4) : DITHER_BAYER4[q[1]][q[2]] = t}) = 1
    /\ \A i \in DOMAIN tile_calls : Cardinality(tile_calls[i].lit) = tile_calls[i].k
    /\ \A i, j \in DOMAIN tile_calls :
          tile_calls[i].k <= tile_calls[j].k =>
              tile_calls[i].lit \subseteq tile_calls[j].lit

\* two tiles either side of the origin, one at 3/16 and one at 14/16
BayerLightsKOfSixteenWitness ==
    /\ Len(tile_calls) = 2
    /\ tile_calls[1].k = 3 /\ tile_calls[1].x0 < 0 /\ tile_calls[1].y0 < 0
    /\ tile_calls[2].k = 14 /\ tile_calls[2].x0 > 0
    /\ tile_calls[1].lit = {<<0, 0>>, <<2, 2>>, <<2, 0>>}
    /\ Cardinality(tile_calls[2].lit) = 14

(***************************************************************************)
(* The piezo buzzer driver (buzzer.c).  Frequencies are in Hz, times in    *)
(* milliseconds.  freq_step holds the truncated value (int)freq_step that  *)
(* buzzer_update adds, the only use the driver makes of the field.         *)
(* buzzer.duty is the duty the LEDC channel was last set to, buzzer.read   *)
(* the index and the length of the last read of notes[] or events[].       *)
(***************************************************************************)

PORTAMENTO_STEPS == 20
MAX_MELODY_NOTES == 16
LEDC_DUTY_50 == 512

\* the play requests of one behaviour
MaxPlays == 1

\* the delta_ms values buzzer_update is called with
Deltas == {20, 110}

Note(freq, duration, portamento) ==
    [freq |-> freq, duration |-> duration, portamento |-> portamento]

Event(note, duration, velocity) ==
    [note |-> note, duration |-> duration, velocity |-> velocity]

MIDI_FREQ_TABLE ==
    <<28, 29, 31, 33, 35, 37, 39, 41, 44, 46, 49, 52,
      55, 58, 62, 65, 69, 73, 78, 82, 87, 92, 98, 104,
      110, 117, 123, 131, 139, 147, 156, 165, 175, 185, 196, 208,
      220, 233, 247, 262, 277, 294, 311, 330, 349, 370, 392, 415,
      440, 466, 494, 523, 554, 587, 622, 659, 698, 740, 784, 831,
      880, 932, 988, 1047, 1109, 1175, 1245, 1319, 1397, 1480, 1568, 1661,
      1760, 1865, 1976, 2093, 2217, 2349, 2489, 2637, 2794, 2960, 3136, 3322,
      3520, 3729, 3951, 4186>>

midi_note_to_freq(midi_note) ==
    IF midi_note = 0 THEN 0
    ELSE IF midi_note < 21 THEN 28
    ELSE IF midi_note > 108 THEN 4186
    ELSE MIDI_FREQ_TABLE[midi_note - 21 + 1]

BIRTHDAY_EVENTS ==
    <<Event(67, 200, 90), Event(67, 200, 90), Event(69, 350, 100),
      Event(67, 350, 100), Event(72, 350, 100), Event(71, 700, 100),
      Event(0, 150, 0),
      Event(67, 200, 90), Event(67, 200, 90), Event(69, 350, 100),
      Event(67, 350, 100), Event(74, 350, 100), Event(72, 700, 100),
      Event(0, 150, 0),
      Event(67, 200, 90), Event(67, 200, 90), Event(79, 350, 100),
      Event(76, 350, 100), Event(72, 350, 100), Event(71, 350, 100),
      Event(69, 700, 100), Event(0, 150, 0),
      Event(77, 200, 90), Event(77, 200, 90), Event(76, 350, 100),
      Event(72, 350, 100), Event(74, 350, 100), Event(72, 900, 100)>>

BIRTHDAY_SONG ==
    [events |-> BIRTHDAY_EVENTS, event_count |-> Len(BIRTHDAY_EVENTS),
     loop |-> FALSE, portamento |-> FALSE]

\* a caller's song for buzzer_play_midi: two notes gliding round and round
RoundSong ==
    [events |-> <<Event(60, 40, 100), Event(72, 130, 100)>>, event_count |-> 2,
     loop |-> TRUE, portamento |-> TRUE]

Songs == {BIRTHDAY_SONG, RoundSong}

MELODY_WINK ==
    [notes |-> <<Note(659, 60, TRUE), Note(784, 100, TRUE), Note(0, 30, FALSE)>>,
     length |-> 3, loop |-> FALSE]

MELODY_BLINK ==
    [notes |-> <<Note(1047, 30, FALSE), Note(0, 20, FALSE)>>,
     length |-> 2, loop |-> FALSE]

MELODY_STARTUP ==
    [notes |-> <<Note(523, 100, TRUE), Note(659, 100, TRUE), Note(784, 100, TRUE),
                 Note(1047, 200, TRUE), Note(0, 100, FALSE)>>,
     length |-> 5, loop |-> FALSE]

\* the zero-filled melody_t of the static buzzer struct
NoMelody == [notes |-> <<>>, length |-> 0, loop |-> FALSE]

\* the sound effects of the switch in buzzer_play_sfx that are modelled; any
\* other value takes its default branch
MelodyOf ==
    [sfx \in {"SFX_WINK", "SFX_BLINK", "SFX_STARTUP"} |->
        CASE sfx = "SFX_WINK" -> MELODY_WINK
          [] sfx = "SFX_BLINK" -> MELODY_BLINK
          [] sfx = "SFX_STARTUP" -> MELODY_STARTUP]

Sfx == {"SFX_NONE", "SFX_WINK", "SFX_BLINK", "SFX_STARTUP", "SFX_BIRTHDAY"}

\* what a read past the end of an array can yield
Junk ==
    {[freq |-> 0, note |-> 0, duration |-> 0, portamento |-> FALSE, velocity |-> 0],
     [freq |-> 65535, note |-> 255, duration |-> 65535, portamento |-> TRUE,
      velocity |-> 255]}

\* notes[i] of a melody_t: the entries past length are zero-filled up to
\* MAX_MELODY_NOTES
NoteAt(melody, i, junk) ==
    IF i < Len(melody.notes) THEN melody.notes[i + 1]
    ELSE IF i < MAX_MELODY_NOTES THEN Note(0, 0, FALSE)
    ELSE junk

\* events[i] of a song
EventAt(song, i, junk) ==
    IF i < Len(song.events) THEN song.events[i + 1] ELSE junk

\* C's integer division, which truncates toward zero
TruncDiv(a, b) == IF a >= 0 THEN a \div b ELSE 0 - ((0 - a) \div b)

\* the static buzzer struct, after buzzer_init returned ESP_OK (ok) or an error
BuzzerAfterInit(ok) ==
    [initialized |-> ok, volume |-> 80, current_freq |-> 0, target_freq |-> 0,
     freq_step |-> 0, current_melody |-> NoMelody, melody_index |-> 0,
     note_time_remaining |-> 0, playing |-> FALSE, play_mode |-> "NONE",
     current_song |-> NULL, midi_event_index |-> 0, porta_steps_remaining |-> 0,
     duty |-> 0, read |-> <<>>]

buzzer_tone(b, freq_hz) ==
    IF ~b.initialized THEN b
    ELSE [b EXCEPT !.duty = IF freq_hz = 0 THEN 0
                             ELSE (LEDC_DUTY_50 * b.volume) \div 100,
                   !.current_freq = freq_hz]

buzzer_stop(b) ==
    [buzzer_tone(b, 0) EXCEPT !.playing = FALSE, !.target_freq = 0,
                              !.play_mode = "NONE", !.current_song = NULL]

\* the glide-or-jump to the frequency of a note that has just been loaded
Glide(b, freq, portamento, steps) ==
    IF portamento /\ b.current_freq > 0 /\ freq > 0
    THEN [b EXCEPT !.target_freq = freq, !.porta_steps_remaining = steps,
                   !.freq_step = TruncDiv(freq - b.current_freq, steps)]
    ELSE [buzzer_tone([b EXCEPT !.target_freq = freq, !.current_freq = freq], freq)
            EXCEPT !.porta_steps_remaining = 0]

start_melody(b, melody) ==
    IF melody = NULL \/ melody.length = 0 THEN b
    ELSE LET note == melody.notes[1]
         IN  Glide([b EXCEPT !.current_melody = melody, !.melody_index = 0,
                             !.playing = TRUE, !.play_mode = "MELODY",
                             !.note_time_remaining = note.duration,
                             !.read = <<0, melody.length>>],
                   note.freq, note.portamento, PORTAMENTO_STEPS)

PlayMidi(b, song) ==
    IF ~b.initialized \/ song = NULL \/ song.event_count = 0 THEN b
    ELSE LET event == song.events[1]
             freq == midi_note_to_freq(event.note)
         IN  Glide([b EXCEPT !.current_song = song, !.midi_event_index = 0,
                             !.playing = TRUE, !.play_mode = "MIDI",
                             !.note_time_remaining = event.duration,
                             !.read = <<0, song.event_count>>],
                   freq, song.portamento, PORTAMENTO_STEPS \div 2)

PlaySfx(b, sfx) ==
    IF ~b.initialized THEN b
    ELSE IF sfx = "SFX_BIRTHDAY" THEN PlayMidi(b, BIRTHDAY_SONG)
    ELSE IF sfx \in DOMAIN MelodyOf THEN start_melody(b, MelodyOf[sfx])
    ELSE buzzer_stop(b)

\* a variant of the end test that lets the index step one past the length
PastEndLate(index, length) == index > length

\* the test that ends a sequence: the incremented index has reached its length
PastEnd(index, length) == index >= length

\* one step of the portamento glide
Porta(b) ==
    IF b.porta_steps_remaining > 0
    THEN LET t == buzzer_tone(b, (b.current_freq + b.freq_step) % 65536)
             steps == b.porta_steps_remaining - 1
         IN  IF steps = 0
             THEN [buzzer_tone([t EXCEPT !.current_freq = t.target_freq],
                               t.target_freq)
                     EXCEPT !.porta_steps_remaining = 0]
             ELSE [t EXCEPT !.porta_steps_remaining = steps]
    ELSE b

\* the melody branch of buzzer_update: advance to the next note
NextNote(b, junk) ==
    LET index == (b.melody_index + 1) % 256
        length == b.current_melody.length
    IN  IF PastEnd(index, length) /\ ~b.current_melody.loop
        THEN buzzer_stop([b EXCEPT !.melody_index = index])
        ELSE LET i == IF PastEnd(index, length) THEN 0 ELSE index
                 note == NoteAt(b.current_melody, i, junk)
             IN  Glide([b EXCEPT !.melody_index = i,
                                 !.note_time_remaining = note.duration,
                                 !.read = <<i, length>>],
                       note.freq, note.portamento, PORTAMENTO_STEPS)

\* the MIDI branch of buzzer_update: advance to the next event
NextEvent(b, junk) ==
    LET index == (b.midi_event_index + 1) % 65536
        song == b.current_song
    IN  IF PastEnd(index, song.event_count) /\ ~song.loop
        THEN buzzer_stop([b EXCEPT !.midi_event_index = index])
        ELSE LET i == IF PastEnd(index, song.event_count) THEN 0 ELSE index
                 event == EventAt(song, i, junk)
                 freq == midi_note_to_freq(event.note)
             IN  Glide([b EXCEPT !.midi_event_index = i,
                                 !.note_time_remaining = event.duration,
                                 !.read = <<i, song.event_count>>],
                       freq, song.portamento /\ event.note # 0,
                       PORTAMENTO_STEPS \div 2)

Update(b, delta_ms, junk) ==
    IF ~b.initialized \/ ~b.playing THEN b
    ELSE LET g == Porta(b)
         IN  IF g.note_time_remaining > delta_ms
             THEN [g EXCEPT !.note_time_remaining = @ - delta_ms]
             ELSE IF g.play_mode = "MELODY" THEN NextNote(g, junk)
             ELSE IF g.play_mode = "MIDI" THEN NextEvent(g, junk)
             ELSE g

AppFrame == UNCHANGED <<objvars, bldvars, rndvars, memvars, pixvars>>

buzzer_play_sfx ==
    /\ played < MaxPlays
    /\ \E sfx \in Sfx : buzzer' = PlaySfx(buzzer, sfx)
    /\ played' = played + 1
    /\ UNCHANGED face
    /\ AppFrame

buzzer_play_midi ==
    /\ played < MaxPlays
    /\ \E song \in Songs : buzzer' = PlayMidi(buzzer, song)
    /\ played' = played + 1
    /\ UNCHANGED face
    /\ AppFrame

buzzer_update ==
    /\ \E delta_ms \in Deltas, junk \in Junk : buzzer' = Update(buzzer, delta_ms, junk)
    /\ UNCHANGED <<played, face>>
    /\ AppFrame

\* buzzer_init has returned, with ESP_OK or with an error
InitBuzzer ==
    /\ ObjIdle /\ BldIdle /\ RndIdle /\ MemIdle /\ PixIdle
    /\ \E ok \in BOOLEAN : buzzer = BuzzerAfterInit(ok)
    /\ played = 0
    /\ face = NULL

NextBuzzer == buzzer_play_sfx \/ buzzer_play_midi \/ buzzer_update

\* the main loop calls buzzer_update on every turn
SpecBuzzer == InitBuzzer /\ [][NextBuzzer]_vars /\ WF_vars(buzzer_update)

Looping(b) ==
    \/ b.play_mode = "MELODY" /\ b.current_melody.loop
    \/ b.play_mode = "MIDI" /\ b.current_song.loop

Silent(b) == ~b.playing /\ b.play_mode = "NONE" /\ b.duty = 0 /\ b.current_freq = 0

\* C29: once a non-looping melody or song plays on an initialised buzzer and
\* no play request follows, the calls of buzzer_update (delta_ms > 0) lead to
\* playing = false, play mode NONE and a silent tone; and every read of
\* notes[] or events[] is at an index below the length of the sequence
MelodyPlaysOut ==
    /\ [](buzzer.read # <<>> => buzzer.read[1] < buzzer.read[2])
    /\ [](buzzer.playing =>
            IF buzzer.play_mode = "MELODY"
            THEN buzzer.melody_index < buzzer.current_melody.length
            ELSE buzzer.play_mode = "MIDI"
                 /\ buzzer.midi_event_index < buzzer.current_song.event_count)
    /\ (buzzer.initialized /\ buzzer.playing /\ ~Looping(buzzer)
            /\ played = MaxPlays) ~> Silent(buzzer)

\* the birthday song was requested and has played to its last event
MelodyPlaysOutWitness ==
    /\ played > 0
    /\ buzzer.initialized
    /\ Silent(buzzer)
    /\ buzzer.midi_event_index = Len(BIRTHDAY_EVENTS)
    /\ buzzer.read = <<Len(BIRTHDAY_EVENTS) - 1, Len(BIRTHDAY_EVENTS)>>

(***************************************************************************)
(* The face animation of the main loop (desktoy_main.c): the emotion, the  *)
(* eye targets and the blink and emotion timers.  Eye openness is in       *)
(* hundredths.  The timers are kept as the milliseconds left until they    *)
(* are due, counted from the now of the last call of update_face, and stop *)
(* at 0 once due.  face.due records whether the test now >= next_blink of  *)
(* the last call was reached and true.  The easing of the drawn eyes, the  *)
(* look direction and the bounce do not touch the targets or the timers    *)
(* and are left out; buzzer_init has failed, so the sound effect of an     *)
(* emotion returns from buzzer_play_sfx at once.                           *)
(***************************************************************************)

emotion_sequence ==
    <<"EMO_NORMAL", "EMO_HAPPY", "EMO_LAUGHING", "EMO_SURPRISED", "EMO_WINK",
      "EMO_SMUG", "EMO_LOVE", "EMO_SLEEPY", "EMO_SLEEPING", "EMO_SAD",
      "EMO_ANGRY", "EMO_SCARED", "EMO_CRAZY", "EMO_BIRTHDAY", "EMO_TROLLFACE">>

Emotions == {emotion_sequence[i] : i \in DOMAIN emotion_sequence}

\* the eye targets apply_emotion_internal sets for an emotion: <<left, right>>
Openness(emo) ==
    CASE emo = "EMO_LAUGHING" -> <<35, 35>>
      [] emo = "EMO_SAD" -> <<65, 65>>
      [] emo = "EMO_SLEEPY" -> <<25, 25>>
      [] emo = "EMO_SLEEPING" -> <<0, 0>>
      [] emo = "EMO_WINK" -> <<100, 0>>
      [] emo = "EMO_SMUG" -> <<60, 90>>
      [] emo = "EMO_BIRTHDAY" -> <<40, 40>>
      [] emo = "EMO_TROLLFACE" -> <<30, 30>>
      [] OTHER -> <<100, 100>>

apply_emotion_internal(f, emo) ==
    [f EXCEPT !.emotion = emo,
              !.target_left_eye = Openness(emo)[1],
              !.target_right_eye = Openness(emo)[2]]

\* the time between two turns of the main loop, and the values of esp_random()
Ticks == {100, 1000}
Randoms == {0, 7950}

\* how long the rotation keeps an emotion
Duration(emo, random) ==
    IF emo = "EMO_BIRTHDAY" THEN 8000
    ELSE IF emo = "EMO_CRAZY" THEN 4000 + (random % 4000)
    ELSE IF emo = "EMO_SLEEPING" THEN 5000 + (random % 3000)
    ELSE 3000 + (random % 5000)

\* the blink block of update_face, the blink timer having run for dt more
Blink(f, dt, random) ==
    LET left == IF f.next_blink > dt THEN f.next_blink - dt ELSE 0
        t == [f EXCEPT !.next_blink = left, !.due = FALSE]
    IN  IF f.emotion \in {"EMO_SLEEPING", "EMO_WINK", "EMO_CRAZY"} \/ left > 0
        THEN t
        ELSE IF f.target_left_eye > 50 /\ f.target_right_eye > 50
        THEN [t EXCEPT !.target_left_eye = 0, !.target_right_eye = 0,
                       !.next_blink = 100, !.due = TRUE]
        ELSE IF f.emotion \notin {"EMO_SLEEPY", "EMO_SAD"}
        THEN [apply_emotion_internal(t, f.emotion)
                EXCEPT !.next_blink = 2500 + (random % 4000), !.due = TRUE]
        ELSE [t EXCEPT !.next_blink = 150, !.due = TRUE]

\* the emotion rotation of update_face, the emotion timer having run for dt more
Rotate(f, dt, random) ==
    LET left == IF f.next_emotion > dt THEN f.next_emotion - dt ELSE 0
    IN  IF left > 0 THEN [f EXCEPT !.next_emotion = left]
        ELSE LET new_emo == emotion_sequence[f.current_emotion_index + 1]
             IN  [apply_emotion_internal(f, new_emo)
                    EXCEPT !.current_emotion_index =
                               (@ + 1) % Len(emotion_sequence),
                           !.next_emotion = Duration(new_emo, random)]

update_face ==
    /\ \E dt \in Ticks, blink_random \in Randoms, emotion_random \in Randoms :
           face' = Rotate(Blink(face, dt, blink_random), dt, emotion_random)
    /\ UNCHANGED <<buzzer, played>>
    /\ AppFrame

\* app_main before its loop: the timers are set and the first emotion applied
InitFace ==
    /\ ObjIdle /\ BldIdle /\ RndIdle /\ MemIdle /\ PixIdle
    /\ buzzer = BuzzerAfterInit(FALSE)
    /\ played = 0
    /\ face = apply_emotion_internal(
                  [emotion |-> "EMO_NORMAL", target_left_eye |-> 100,
                   target_right_eye |-> 100, next_blink |-> 3000,
                   next_emotion |-> 3000, current_emotion_index |-> 0,
                   due |-> FALSE],
                  "EMO_TROLLFACE")

\* the main loop calls update_face on every turn
SpecFace == InitFace /\ [][update_face]_vars /\ WF_vars(update_face)

Targets(f) == <<f.target_left_eye, f.target_right_eye>>

\* a blink has closed the eye targets of an emotion that keeps them open
BlinkClosed == Targets(face) = <<0, 0>> /\ Openness(face.emotion) # <<0, 0>>

\* C30: when the eye targets are closed by a blink and a call of update_face
\* finds the blink timer due while the emotion stays current, that call
\* restores the targets to the openness of the emotion, whatever the emotion
BlinkRestores ==
    [][(BlinkClosed /\ face'.due /\ face'.emotion = face.emotion)
          => Targets(face') = Openness(face.emotion)]_vars

====
